---------------------------- MODULE Spec2Model ----------------------------
(***************************************************************************)
(* A model of the BNL container library (src/src/lib.rs and                *)
(* src/src/asset/mod.rs): the DataViewList, the VirtualResource, the       *)
(* AssetDescription table and the BNLFile lookup and mutation operations.  *)
(*                                                                         *)
(* Byte buffers are sequences of naturals below 256.  Offsets are the      *)
(* 0-based offsets of the source; Sl(b, s, e) is the Rust slice b[s..e].   *)
(* A Rust Result is a record with a tag: Ok(v), Err(e); a panic (an index  *)
(* out of range, an unwrap of None, an arithmetic overflow in a build with *)
(* overflow checks) is the third outcome, Panic.                           *)
(***************************************************************************)
EXTENDS Integers, Sequences, FiniteSets, TLC

-----------------------------------------------------------------------------
(* Results and byte helpers *)

Ok(v) == [tag |-> "Ok", val |-> v]

Err(e) == [tag |-> "Err", err |-> e]

Panic == [tag |-> "Panic"]

IsOk(r) == r.tag = "Ok"

IsErr(r) == r.tag = "Err"

IsPanic(r) == r.tag = "Panic"

Min(a, b) == IF a < b THEN a ELSE b

\* b[s..e] of Rust, for 0 <= s <= e <= Len(b)
Sl(b, s, e) == SubSeq(b, s + 1, e)

\* whether b[s..e] is a valid range (otherwise the index expression panics)
InRange(b, s, e) == s <= e /\ e <= Len(b)

\* the copy writing src one byte further on
CopyInto_mut(dst, pos, src) ==
    [k \in 1..Len(dst) |->
        IF k > pos + 1 /\ k <= pos + 1 + Len(src) THEN src[k - pos - 1] ELSE dst[k]]

\* dst[pos..pos+Len(src)].copy_from_slice(src)
CopyInto(dst, pos, src) ==
    [k \in 1..Len(dst) |->
        IF k > pos /\ k <= pos + Len(src) THEN src[k - pos] ELSE dst[k]]

Zeros(n) == [k \in 1..n |-> 0]

\* u32::to_le_bytes / write_u32::<LittleEndian>
LE32(n) ==
    << n % 256, (n \div 256) % 256, (n \div 65536) % 256, (n \div 16777216) % 256 >>

\* u32::from_le_bytes(b[o..o+4])
U32At(b, o) ==
    b[o + 1] + 256 * b[o + 2] + 65536 * b[o + 3] + 16777216 * b[o + 4]

RECURSIVE Concat(_)
Concat(ss) == IF ss = << >> THEN << >> ELSE Head(ss) \o Concat(Tail(ss))

RECURSIVE SumSeq(_)
SumSeq(ns) ==
    IF ns = << >> THEN 0
    ELSE IF Len(ns) = 1 THEN ns[1]
    ELSE LET h == Len(ns) \div 2 IN
         SumSeq(SubSeq(ns, 1, h)) + SumSeq(SubSeq(ns, h + 1, Len(ns)))

-----------------------------------------------------------------------------
(* VirtualResource (src/src/lib.rs) *)

\* VirtualResource::len: the fold over the slices' lengths
VR_len(slices) == SumSeq([i \in 1..Len(slices) |-> Len(slices[i])])

\* the guard "this slice is part of the copy", with >= in place of >
SliceTakesPartMut(slice_start, slice_size, start_offset) ==
    slice_start + slice_size >= start_offset

\* (slice_start + slice_size) > start_offset
SliceTakesPart(slice_start, slice_size, start_offset) ==
    slice_start + slice_size > start_offset

\* the start index taken as 0 in every slice
CopyStartMut(start_offset, slice_start) == 0

\* start_offset.saturating_sub(slice_start)
CopyStart(start_offset, slice_start) ==
    IF start_offset > slice_start THEN start_offset - slice_start ELSE 0

\* the loop of VirtualResource::get_bytes from slice i on; v is the output
\* vector, total_written the bytes copied so far
RECURSIVE GetBytesLoop(_, _, _, _, _, _, _)
GetBytesLoop(slices, i, start_offset, get_size, slice_start, total_written, v) ==
    IF i > Len(slices)
    THEN IF total_written # get_size THEN Err("SizeOutOfBounds") ELSE Ok(v)
    ELSE
      LET slice == slices[i]
          slice_size == Len(slice)
      IN
      IF SliceTakesPart(slice_start, slice_size, start_offset)
      THEN
        LET desired_cp_size == get_size - total_written
            cp_i == CopyStart(start_offset, slice_start)
            cp_size == Min(desired_cp_size, slice_size - cp_i)
            cp_j == cp_i + cp_size
        IN
        IF cp_size < 0 \/ ~InRange(slice, cp_i, cp_j)
           \/ ~InRange(v, total_written, total_written + cp_size)
        THEN Panic
        ELSE
          LET v2 == CopyInto(v, total_written, Sl(slice, cp_i, cp_j))
              tw2 == total_written + cp_size
          IN
          IF tw2 > get_size THEN Err("SizeOutOfBounds")
          ELSE IF tw2 = get_size THEN Ok(v2)
          ELSE GetBytesLoop(slices, i + 1, start_offset, get_size,
                            slice_start + slice_size, tw2, v2)
      ELSE GetBytesLoop(slices, i + 1, start_offset, get_size,
                        slice_start + slice_size, total_written, v)

\* get_bytes with the offset check taken as end <= start_offset
VR_get_bytes_mut(slices, start_offset, get_size) ==
    LET end == VR_len(slices) IN
    IF end <= start_offset THEN Err("OffsetOutOfBounds")
    ELSE IF end - start_offset < get_size THEN Err("SizeOutOfBounds")
    ELSE GetBytesLoop(slices, 1, start_offset, get_size, 0, 0, Zeros(get_size))

\* VirtualResource::get_bytes
VR_get_bytes(slices, start_offset, get_size) ==
    LET end == VR_len(slices) IN
    IF end < start_offset THEN Err("OffsetOutOfBounds")
    ELSE IF end - start_offset < get_size THEN Err("SizeOutOfBounds")
    ELSE GetBytesLoop(slices, 1, start_offset, get_size, 0, 0, Zeros(get_size))

\* the loop of VirtualResource::get_all_bytes
RECURSIVE GetAllLoop(_, _, _, _)
GetAllLoop(slices, i, curr, bytes) ==
    IF i > Len(slices) THEN Ok(bytes)
    ELSE LET copy_size == Len(slices[i]) IN
         IF ~InRange(bytes, curr, curr + copy_size) THEN Panic
         ELSE GetAllLoop(slices, i + 1, curr + copy_size,
                         CopyInto(bytes, curr, slices[i]))

\* get_all_bytes with the first slice passed over
VR_get_all_bytes_mut(slices) == GetAllLoop(slices, 2, 0, Zeros(VR_len(slices)))

\* VirtualResource::get_all_bytes
VR_get_all_bytes(slices) == GetAllLoop(slices, 1, 0, Zeros(VR_len(slices)))

\* VirtualResource::from_dvl, from view i on
RECURSIVE FromDvlLoop(_, _, _, _)
FromDvlLoop(views, i, bytes, slices) ==
    IF i > Len(views) THEN Ok(slices)
    ELSE
      LET offset == views[i].offset
          size == views[i].size
      IN
      IF offset > Len(bytes) THEN Err("OffsetOutOfBounds")
      ELSE IF Len(bytes) - offset < size THEN Err("SizeOutOfBounds")
      ELSE FromDvlLoop(views, i + 1, bytes,
                       Append(slices, Sl(bytes, offset, offset + size)))

\* VirtualResource::from_dvl
VR_from_dvl(dvl, bytes) == FromDvlLoop(dvl.views, 1, bytes, << >>)

-----------------------------------------------------------------------------
(* DataViewList (src/src/asset/mod.rs) *)

\* size_of::<DataView>(): two u32 fields
DATA_VIEW_SIZE == 8

\* 2^32 / size_of::<DataView>(): the u32 expression num_views * 8 + 8 is
\* 8 * ((num_views + 1) mod 2^29) modulo 2^32.  Values are kept in units of
\* 8 bytes where a product could pass 2^31.
U32_WRAP_VIEWS == 536870912

\* the input-length check taken against the list with its 8-byte header:
\* view_bytes.len() < num_views * 8 + 8
DVL_too_short_mut(len, num_views) == (len - 8) \div DATA_VIEW_SIZE < num_views

\* view_bytes.len() < num_views as usize * size_of::<DataView>()
\* (usize arithmetic; written as a quotient, which is the same comparison)
DVL_too_short(len, num_views) == len \div DATA_VIEW_SIZE < num_views

\* the comparison of size with the count left out
DVL_size_differs_mut(size, num_views) == FALSE

\* size != num_views * size_of::<DataView>() as u32 + 8, in wrapping u32
DVL_size_differs(size, num_views) ==
    ~(size % DATA_VIEW_SIZE = 0
      /\ size \div DATA_VIEW_SIZE = (num_views + 1) % U32_WRAP_VIEWS)

\* whether num_views * 8 + 8 exceeds u32::MAX
DVL_size_overflows(num_views) == num_views + 1 >= U32_WRAP_VIEWS

\* the loop "for _ in 0..num_views" of DataViewList::from_bytes over
\* view_bytes[8..].chunks(8): chunk k is rest[8k .. min(8k+8, len)], and
\* chunks.next() is None once 8k >= len
RECURSIVE DVL_read_views(_, _, _, _)
DVL_read_views(rest, k, num_views, views) ==
    IF k >= num_views THEN Ok(views)
    ELSE IF DATA_VIEW_SIZE * k >= Len(rest) THEN Panic
    ELSE
      LET chunk == Sl(rest, DATA_VIEW_SIZE * k,
                      Min(DATA_VIEW_SIZE * k + DATA_VIEW_SIZE, Len(rest)))
      IN
      IF ~InRange(chunk, 0, 4) \/ ~InRange(chunk, 4, 8) THEN Panic
      ELSE DVL_read_views(rest, k + 1, num_views,
              Append(views, [offset |-> U32At(chunk, 0), size |-> U32At(chunk, 4)]))

\* DataViewList::from_bytes.  overflow_checks is the build's setting: the
\* u32 expression num_views * 8 + 8 panics on overflow with it and wraps
\* without it.
DVL_from_bytes(view_bytes, overflow_checks) ==
    IF Len(view_bytes) < 8 THEN Err("Data not long enough")
    ELSE
      LET size == U32At(view_bytes, 0)
          num_views == U32At(view_bytes, 4)
      IN
      IF num_views = 0 THEN Err("Invalid size.")
      ELSE IF DVL_size_overflows(num_views) /\ overflow_checks THEN Panic
      ELSE IF DVL_size_differs(size, num_views) THEN Err("Invalid size.")
      ELSE IF DVL_too_short(Len(view_bytes), num_views)
      THEN Err("Input is not large enough.")
      ELSE
        LET r == DVL_read_views(Sl(view_bytes, 8, Len(view_bytes)), 0, num_views, << >>)
        IN IF IsOk(r)
           THEN Ok([size |-> size, num_views |-> num_views, views |-> r.val])
           ELSE r

\* DataViewList::len
DVL_len(dvl) == SumSeq([i \in 1..Len(dvl.views) |-> dvl.views[i].size])

\* the closure of DataViewList::slices from view i on: &data[start..end]
RECURSIVE DVL_slices_loop(_, _, _, _)
DVL_slices_loop(views, i, data, acc) ==
    IF i > Len(views) THEN Ok(acc)
    ELSE
      LET start == views[i].offset
          end == start + views[i].size
      IN IF ~InRange(data, start, end) THEN Panic
         ELSE DVL_slices_loop(views, i + 1, data, Append(acc, Sl(data, start, end)))

\* DataViewList::slices
DVL_slices(dvl, data) ==
    IF dvl.num_views # Len(dvl.views) THEN Err("Invalid BufferViewList")
    ELSE DVL_slices_loop(dvl.views, 1, data, << >>)

\* the size check of write_bytes left out
DVL_size_mismatch_mut(dvl_size, write_size) == FALSE

\* dvl_size != write_size
DVL_size_mismatch(dvl_size, write_size) == dvl_size # write_size

\* the loop of DataViewList::write_bytes from view i on.  The result is the
\* pair of the Result and the resource as the call leaves it.
RECURSIVE DVL_write_loop(_, _, _, _, _)
DVL_write_loop(views, i, bytes, total_written, resource) ==
    LET write_size == Len(bytes) IN
    IF i > Len(views)
    THEN [res |-> IF total_written # write_size THEN Err("SizeOutOfBounds") ELSE Ok(<< >>),
          resource |-> resource]
    ELSE
      LET view == views[i]
          view_size == view.size
      IN
      IF ~InRange(resource, view.offset, view.offset + view.size)
      THEN [res |-> Panic, resource |-> resource]
      ELSE
        LET desired_cp_size == write_size - total_written
            cp_size == Min(desired_cp_size, view_size)
            tw2 == total_written + cp_size
            resource2 == CopyInto(resource, view.offset,
                                  Sl(bytes, total_written, total_written + cp_size))
        IN
        IF tw2 > write_size THEN [res |-> Err("SizeOutOfBounds"), resource |-> resource2]
        ELSE IF tw2 = write_size THEN [res |-> Ok(<< >>), resource |-> resource2]
        ELSE DVL_write_loop(views, i + 1, bytes, tw2, resource2)

\* write_bytes clearing the resource before it writes
DVL_write_bytes_mut(dvl, bytes, resource) ==
    IF DVL_size_mismatch(DVL_len(dvl), Len(bytes))
    THEN [res |-> Err("SizeOutOfBounds"), resource |-> resource]
    ELSE DVL_write_loop(dvl.views, 1, bytes, 0, Zeros(Len(resource)))

\* DataViewList::write_bytes
DVL_write_bytes(dvl, bytes, resource) ==
    IF DVL_size_mismatch(DVL_len(dvl), Len(bytes))
    THEN [res |-> Err("SizeOutOfBounds"), resource |-> resource]
    ELSE DVL_write_loop(dvl.views, 1, bytes, 0, resource)

-----------------------------------------------------------------------------
(* AssetDescription (src/src/asset/mod.rs) and AssetType (src/src/game.rs) *)

ASSET_DESCRIPTION_SIZE == 160

\* size of the AssetName field, [u8; 128]
ASSET_NAME_SIZE == 128

\* the discriminants of enum AssetType; ResCount takes the next value, 30
AssetTypeCodes == (1..5) \cup {7, 8} \cup (10..14) \cup {16} \cup (18..30)

ResTexture == 1

ResScript == 24

\* the value from_bytes leaves in asset_desc_index (usize::MAX), which
\* BNLFile::from_bytes overwrites with the row index
NO_INDEX == -1

\* from_bytes taking any asset_type code
AD_from_bytes_mut(bytes) ==
    IF Len(bytes) < ASSET_DESCRIPTION_SIZE THEN Err("io: failed to fill whole buffer")
    ELSE Ok([name |-> Sl(bytes, 0, ASSET_NAME_SIZE),
             asset_type |-> U32At(bytes, 128),
             unk_1 |-> U32At(bytes, 132),
             unk_2 |-> U32At(bytes, 136),
             chunk_count |-> U32At(bytes, 140),
             descriptor_ptr |-> U32At(bytes, 144),
             descriptor_size |-> U32At(bytes, 148),
             dataview_list_ptr |-> U32At(bytes, 152),
             resource_size |-> U32At(bytes, 156),
             asset_desc_index |-> NO_INDEX])

\* AssetDescription::from_bytes: the cursor reads fail on a short input
AD_from_bytes(bytes) ==
    IF Len(bytes) < ASSET_NAME_SIZE + 4 THEN Err("io: failed to fill whole buffer")
    ELSE IF U32At(bytes, 128) \notin AssetTypeCodes
    THEN Err("Unable to parse asset type from BNL.")
    ELSE IF Len(bytes) < ASSET_DESCRIPTION_SIZE THEN Err("io: failed to fill whole buffer")
    ELSE Ok([name |-> Sl(bytes, 0, ASSET_NAME_SIZE),
             asset_type |-> U32At(bytes, 128),
             unk_1 |-> U32At(bytes, 132),
             unk_2 |-> U32At(bytes, 136),
             chunk_count |-> U32At(bytes, 140),
             descriptor_ptr |-> U32At(bytes, 144),
             descriptor_size |-> U32At(bytes, 148),
             dataview_list_ptr |-> U32At(bytes, 152),
             resource_size |-> U32At(bytes, 156),
             asset_desc_index |-> NO_INDEX])

\* AssetDescription::to_bytes
\* to_bytes writing unk_2 before unk_1
AD_to_bytes_mut(ad) ==
    ad.name \o LE32(ad.asset_type) \o LE32(ad.unk_2) \o LE32(ad.unk_1)
      \o LE32(ad.chunk_count) \o LE32(ad.descriptor_ptr) \o LE32(ad.descriptor_size)
      \o LE32(ad.dataview_list_ptr) \o LE32(ad.resource_size)

AD_to_bytes(ad) ==
    ad.name \o LE32(ad.asset_type) \o LE32(ad.unk_1) \o LE32(ad.unk_2)
      \o LE32(ad.chunk_count) \o LE32(ad.descriptor_ptr) \o LE32(ad.descriptor_size)
      \o LE32(ad.dataview_list_ptr) \o LE32(ad.resource_size)

\* AssetDescription::name: the text before the first NUL.  The names of
\* the model are ASCII, for which from_utf8 succeeds.
RECURSIVE UpToNul(_)
UpToNul(bs) ==
    IF bs = << >> \/ Head(bs) = 0 THEN << >> ELSE << Head(bs) >> \o UpToNul(Tail(bs))

AD_name(ad) == UpToNul(ad.name)

-----------------------------------------------------------------------------
(* ScriptDescriptor (src/src/asset/script/mod.rs) *)

\* ScriptOperation::to_bytes: the size written is operand_bytes.len() + 8,
\* not the size field
SO_to_bytes(op) ==
    LE32(Len(op.operand_bytes) + 8) \o LE32(op.opcode) \o op.operand_bytes

\* the while loop of ScriptDescriptor::from_bytes; pos is the cursor after
\* the (size, opcode) pair just read
RECURSIVE SD_read_ops(_, _, _, _, _)
SD_read_ops(data, pos, size, opcode, operations) ==
    IF opcode # 0
    THEN
      IF size < 8 THEN Err("ErrorParsingDescriptor")
      ELSE IF pos + (size - 8) > Len(data) THEN Err("InvalidDataViews")
      ELSE
        LET pos2 == pos + (size - 8)
            op == [size |-> size, opcode |-> opcode,
                   operand_bytes |-> Sl(data, pos, pos2)]
        IN
        IF pos2 + 8 > Len(data) THEN Err("InvalidDataViews")
        ELSE SD_read_ops(data, pos2 + 8, U32At(data, pos2), U32At(data, pos2 + 4),
                         Append(operations, op))
    ELSE IF size = 8
    THEN Ok([operations |->
               Append(operations, [size |-> 8, opcode |-> 0, operand_bytes |-> << >>])])
    ELSE Err("ErrorParsingDescriptor")

\* <ScriptDescriptor as AssetDescriptor>::from_bytes
SD_from_bytes(data) ==
    IF Len(data) < 8 THEN Err("InputTooSmall")
    ELSE SD_read_ops(data, 8, U32At(data, 0), U32At(data, 4), << >>)

\* <ScriptDescriptor as AssetDescriptor>::to_bytes
SD_to_bytes(d) ==
    Ok(Concat([i \in 1..Len(d.operations) |-> SO_to_bytes(d.operations[i])]))

\* <ScriptDescriptor as AssetDescriptor>::size: the sum of the size fields
SD_size(d) == SumSeq([i \in 1..Len(d.operations) |-> d.operations[i].size])

-----------------------------------------------------------------------------
(* zlib, as BNLFile uses it (miniz_oxide; src/src/lib.rs lines 162, 220) *)

\* the trailing check value of a stream
Checksum(s) == SumSeq(s) % 251

\* compress_to_vec_zlib: a two-byte stream header, the data, a check value
Deflate(s) == << 120, 1 >> \o s \o << Checksum(s) >>

\* decompress_to_vec_zlib: the inverse of Deflate; DecompressError on
\* anything that is not a stream
Inflate(z) ==
    IF Len(z) >= 3 /\ z[1] = 120 /\ z[2] = 1
       /\ z[Len(z)] = Checksum(Sl(z, 2, Len(z) - 1))
    THEN Ok(Sl(z, 2, Len(z) - 1))
    ELSE Err("DecompressionFailure")

-----------------------------------------------------------------------------
(* BNLHeader and BNLFile (src/src/lib.rs) *)

\* the uncompressed header: u16, u8, [u8; 5], four DataViews
HEADER_SIZE == 40

\* DataView::from_cursor at offset o
DataViewAt(b, o) == [offset |-> U32At(b, o), size |-> U32At(b, o + 4)]

\* the header read with the view-list and raw-buffer views exchanged
ReadHeader_mut(b) ==
    [file_count |-> b[1] + 256 * b[2],
     flags |-> b[3],
     unknown_2 |-> Sl(b, 3, 8),
     asset_desc_loc |-> DataViewAt(b, 8),
     buffer_views_loc |-> DataViewAt(b, 24),
     buffer_loc |-> DataViewAt(b, 16),
     descriptor_loc |-> DataViewAt(b, 32)]

\* the header fields as BNLFile::from_bytes reads them from the cursor
ReadHeader(b) ==
    [file_count |-> b[1] + 256 * b[2],
     flags |-> b[3],
     unknown_2 |-> Sl(b, 3, 8),
     asset_desc_loc |-> DataViewAt(b, 8),
     buffer_views_loc |-> DataViewAt(b, 16),
     buffer_loc |-> DataViewAt(b, 24),
     descriptor_loc |-> DataViewAt(b, 32)]

\* the header written with the section offsets counted anew from byte 40
Header_to_bytes_mut(h) ==
    << h.file_count % 256, h.file_count \div 256, h.flags >> \o h.unknown_2
      \o LE32(40) \o LE32(h.asset_desc_loc.size)
      \o LE32(40 + h.asset_desc_loc.size) \o LE32(h.buffer_views_loc.size)
      \o LE32(40 + h.asset_desc_loc.size + h.buffer_views_loc.size) \o LE32(h.buffer_loc.size)
      \o LE32(40 + h.asset_desc_loc.size + h.buffer_views_loc.size + h.buffer_loc.size)
      \o LE32(h.descriptor_loc.size)

\* BNLHeader::to_bytes
Header_to_bytes(h) ==
    << h.file_count % 256, h.file_count \div 256, h.flags >> \o h.unknown_2
      \o LE32(h.asset_desc_loc.offset) \o LE32(h.asset_desc_loc.size)
      \o LE32(h.buffer_views_loc.offset) \o LE32(h.buffer_views_loc.size)
      \o LE32(h.buffer_loc.offset) \o LE32(h.buffer_loc.size)
      \o LE32(h.descriptor_loc.offset) \o LE32(h.descriptor_loc.size)

\* BNLHeader::default / BNLFile::default
DefaultHeader ==
    [file_count |-> 0, flags |-> 0, unknown_2 |-> Zeros(5),
     asset_desc_loc |-> [offset |-> 0, size |-> 0],
     buffer_views_loc |-> [offset |-> 0, size |-> 0],
     buffer_loc |-> [offset |-> 0, size |-> 0],
     descriptor_loc |-> [offset |-> 0, size |-> 0]]

DefaultBNL ==
    [header |-> DefaultHeader, asset_desc_bytes |-> << >>, buffer_views_bytes |-> << >>,
     buffer_bytes |-> << >>, descriptor_bytes |-> << >>, asset_descriptions |-> << >>]

\* cur.seek(SeekFrom::Start(loc.offset)); buf.resize(loc.size, 0);
\* cur.read_exact(&mut buf): fails unless loc.size bytes remain (an empty
\* read succeeds wherever the cursor stands)
ReadSection(bytes, loc) ==
    IF loc.size = 0 THEN Ok(<< >>)
    ELSE IF loc.offset + loc.size > Len(bytes) THEN Err("DataReadError")
    ELSE Ok(Sl(bytes, loc.offset, loc.offset + loc.size))

\* the loop "for i in 0..num_descriptions" of BNLFile::from_bytes
RECURSIVE ReadDescriptions(_, _, _, _, _)
ReadDescriptions(bytes, offset, i, num_descriptions, acc) ==
    IF i >= num_descriptions THEN Ok(acc)
    ELSE
      LET pos == offset + i * ASSET_DESCRIPTION_SIZE IN
      IF pos + ASSET_DESCRIPTION_SIZE > Len(bytes) THEN Err("DataReadError")
      ELSE
        LET r == AD_from_bytes(Sl(bytes, pos, pos + ASSET_DESCRIPTION_SIZE)) IN
        IF ~IsOk(r) THEN Err("DataReadError")
        ELSE ReadDescriptions(bytes, offset, i + 1, num_descriptions,
                              Append(acc, [r.val EXCEPT !.asset_desc_index = i]))

\* BNLFile::from_bytes
BNL_from_bytes(bnl_bytes) ==
    IF ~InRange(bnl_bytes, 0, HEADER_SIZE) THEN Panic
    ELSE
      LET hdr == ReadHeader(bnl_bytes)
          inflated == Inflate(Sl(bnl_bytes, HEADER_SIZE, Len(bnl_bytes)))
      IN
      IF ~IsOk(inflated) THEN Err("DecompressionFailure")
      ELSE
        LET bytes == Sl(bnl_bytes, 0, HEADER_SIZE) \o inflated.val
            num_descriptions == hdr.asset_desc_loc.size \div ASSET_DESCRIPTION_SIZE
            table == ReadDescriptions(bytes, hdr.asset_desc_loc.offset, 0,
                                      num_descriptions, << >>)
            s1 == ReadSection(bytes, hdr.asset_desc_loc)
            s2 == ReadSection(bytes, hdr.buffer_views_loc)
            s3 == ReadSection(bytes, hdr.buffer_loc)
            s4 == ReadSection(bytes, hdr.descriptor_loc)
        IN
        IF ~IsOk(table) THEN table
        ELSE IF ~IsOk(s1) THEN s1
        ELSE IF ~IsOk(s2) THEN s2
        ELSE IF ~IsOk(s3) THEN s3
        ELSE IF ~IsOk(s4) THEN s4
        ELSE Ok([header |-> hdr,
                 asset_desc_bytes |-> s1.val,
                 buffer_views_bytes |-> s2.val,
                 buffer_bytes |-> s3.val,
                 descriptor_bytes |-> s4.val,
                 asset_descriptions |-> table.val])

\* BNLFile::to_bytes
BNL_to_bytes(f) ==
    Header_to_bytes(f.header)
      \o Deflate(f.asset_desc_bytes \o f.buffer_views_bytes
                 \o f.buffer_bytes \o f.descriptor_bytes)

\* AssetError values
NotFound == [kind |-> "NotFound", detail |-> ""]

TypeMismatch == [kind |-> "TypeMismatch", detail |-> ""]

ParseError(detail) == [kind |-> "ParseError", detail |-> detail]

\* the messages the lookups and mutations attach to InvalidDataViews
NoViewList == "InvalidDataViews: Unable to get data view list from BNL data."

NoSlices == "InvalidDataViews: Unable to get data from data slices."

CannotGrow == "InvalidDataViews: The descriptor can not grow in size."

\* the position in the table of the first record named name, 0 if none:
\* the "for asset_desc in &self.asset_descriptions" scans and
\* BNLFile::get_asset_description
\* the search taking the last record of the name instead of the first
FindIndex_mut(table, name) ==
    IF \E i \in 1..Len(table) : AD_name(table[i]) = name
    THEN CHOOSE i \in 1..Len(table) :
           /\ AD_name(table[i]) = name
           /\ \A j \in (i + 1)..Len(table) : AD_name(table[j]) # name
    ELSE 0

FindIndex(table, name) ==
    IF \E i \in 1..Len(table) : AD_name(table[i]) = name
    THEN CHOOSE i \in 1..Len(table) :
           /\ AD_name(table[i]) = name
           /\ \A j \in 1..(i - 1) : AD_name(table[j]) # name
    ELSE 0

\* BNLFile::get_dataview_list: &self.buffer_views_bytes[offset..] panics
\* past the end of the section
BNL_get_dataview_list(f, offset, overflow_checks) ==
    IF offset > Len(f.buffer_views_bytes) THEN Panic
    ELSE DVL_from_bytes(Sl(f.buffer_views_bytes, offset, Len(f.buffer_views_bytes)),
                        overflow_checks)

\* the body shared by BNLFile::get_raw_asset and the closure of
\* BNLFile::get_raw_assets, for one record
RawAssetOf(f, asset_desc, overflow_checks) ==
    LET desc_ptr == asset_desc.descriptor_ptr
        desc_size == asset_desc.descriptor_size
    IN
    IF ~InRange(f.descriptor_bytes, desc_ptr, desc_ptr + desc_size) THEN Panic
    ELSE
      LET dvl == BNL_get_dataview_list(f, asset_desc.dataview_list_ptr, overflow_checks)
      IN
      IF IsPanic(dvl) THEN Panic
      ELSE IF IsErr(dvl) THEN Err(ParseError(NoViewList))
      ELSE
        LET slices == DVL_slices(dvl.val, f.buffer_bytes) IN
        IF IsPanic(slices) THEN Panic
        ELSE IF IsErr(slices) THEN Err(ParseError(NoSlices))
        ELSE Ok([name |-> AD_name(asset_desc),
                 asset_type |-> asset_desc.asset_type,
                 descriptor_bytes |-> Sl(f.descriptor_bytes, desc_ptr, desc_ptr + desc_size),
                 data_slices |-> slices.val])

\* BNLFile::get_raw_asset
BNL_get_raw_asset(f, name, overflow_checks) ==
    LET i == FindIndex(f.asset_descriptions, name) IN
    IF i = 0 THEN Err(NotFound)
    ELSE RawAssetOf(f, f.asset_descriptions[i], overflow_checks)

\* the loop of BNLFile::get_raw_assets from record i on: an Err is
\* reported and the record left out; a panic ends the call
RECURSIVE RawAssetsLoop(_, _, _, _)
RawAssetsLoop(f, i, assets, overflow_checks) ==
    IF i > Len(f.asset_descriptions) THEN Ok(assets)
    ELSE
      LET r == RawAssetOf(f, f.asset_descriptions[i], overflow_checks) IN
      IF IsPanic(r) THEN Panic
      ELSE IF IsOk(r) THEN RawAssetsLoop(f, i + 1, Append(assets, r.val), overflow_checks)
      ELSE RawAssetsLoop(f, i + 1, assets, overflow_checks)

\* BNLFile::get_raw_assets
BNL_get_raw_assets(f, overflow_checks) == RawAssetsLoop(f, 1, << >>, overflow_checks)

\* BNLFile::get_descriptor::<ScriptDescriptor>
BNL_get_descriptor(f, name) ==
    LET i == FindIndex(f.asset_descriptions, name) IN
    IF i = 0 THEN Err(NotFound)
    ELSE
      LET asset_desc == f.asset_descriptions[i] IN
      IF asset_desc.asset_type # ResScript THEN Err(TypeMismatch)
      ELSE IF asset_desc.descriptor_ptr > Len(f.descriptor_bytes) THEN Panic
      ELSE
        LET d == SD_from_bytes(Sl(f.descriptor_bytes, asset_desc.descriptor_ptr,
                                  Len(f.descriptor_bytes)))
        IN IF IsOk(d) THEN d ELSE Err(ParseError(d.err))

\* the steps of BNLFile::get_asset::<Script> and get_assets::<Script> for
\* one record of the type: the descriptor parsed from
\* descriptor_bytes[descriptor_ptr..], the view list, from_dvl, Script::new
ScriptOf(f, asset_desc, overflow_checks) ==
    LET descriptor_ptr == asset_desc.descriptor_ptr IN
    IF descriptor_ptr > Len(f.descriptor_bytes) THEN Panic
    ELSE
      LET descriptor == SD_from_bytes(Sl(f.descriptor_bytes, descriptor_ptr,
                                         Len(f.descriptor_bytes)))
      IN
      IF ~IsOk(descriptor) THEN Err(ParseError(descriptor.err))
      ELSE
        LET dvl == BNL_get_dataview_list(f, asset_desc.dataview_list_ptr, overflow_checks)
        IN
        IF IsPanic(dvl) THEN Panic
        ELSE IF IsErr(dvl) THEN Err(ParseError(NoViewList))
        ELSE
          LET virtual_res == VR_from_dvl(dvl.val, f.buffer_bytes) IN
          IF IsErr(virtual_res)
          THEN Err(ParseError(NoSlices \o " Error: " \o virtual_res.err))
          ELSE
            LET data == VR_get_all_bytes(virtual_res.val) IN
            IF IsPanic(data) THEN Panic
            ELSE Ok([name |-> AD_name(asset_desc),
                     descriptor |-> descriptor.val,
                     data |-> data.val])

\* BNLFile::get_asset::<Script>
\* get_asset with the type compared after the record has been parsed
BNL_get_asset_mut(f, name, overflow_checks) ==
    LET i == FindIndex(f.asset_descriptions, name) IN
    IF i = 0 THEN Err(NotFound)
    ELSE LET r == ScriptOf(f, f.asset_descriptions[i], overflow_checks) IN
         IF ~IsOk(r) THEN r
         ELSE IF f.asset_descriptions[i].asset_type # ResScript THEN Err(TypeMismatch)
         ELSE r

BNL_get_asset(f, name, overflow_checks) ==
    LET i == FindIndex(f.asset_descriptions, name) IN
    IF i = 0 THEN Err(NotFound)
    ELSE IF f.asset_descriptions[i].asset_type # ResScript THEN Err(TypeMismatch)
    ELSE ScriptOf(f, f.asset_descriptions[i], overflow_checks)

\* the loop of BNLFile::get_assets::<Script> from record i on: a record of
\* another type or with an Err is passed over; a panic ends the call
RECURSIVE AssetsLoop(_, _, _, _)
AssetsLoop(f, i, assets, overflow_checks) ==
    IF i > Len(f.asset_descriptions) THEN Ok(assets)
    ELSE IF f.asset_descriptions[i].asset_type # ResScript
    THEN AssetsLoop(f, i + 1, assets, overflow_checks)
    ELSE
      LET r == ScriptOf(f, f.asset_descriptions[i], overflow_checks) IN
      IF IsPanic(r) THEN Panic
      ELSE IF IsOk(r) THEN AssetsLoop(f, i + 1, Append(assets, r.val), overflow_checks)
      ELSE AssetsLoop(f, i + 1, assets, overflow_checks)

\* BNLFile::get_assets::<Script>
BNL_get_assets(f, overflow_checks) == AssetsLoop(f, 1, << >>, overflow_checks)

\* BNLFile::update_asset::<Script>, data being asset.resource_data().
\* The result is the pair of the Result and the file as the call leaves it.
BNL_update_asset(f, name, data, overflow_checks) ==
    LET i == FindIndex(f.asset_descriptions, name) IN
    IF i = 0 THEN [res |-> Err(NotFound), bnl |-> f]
    ELSE
      LET asset_desc == f.asset_descriptions[i] IN
      IF asset_desc.asset_type # ResScript THEN [res |-> Err(TypeMismatch), bnl |-> f]
      ELSE
        LET dvl == BNL_get_dataview_list(f, asset_desc.dataview_list_ptr, overflow_checks)
        IN
        IF IsPanic(dvl) THEN [res |-> Panic, bnl |-> f]
        ELSE IF IsErr(dvl) THEN [res |-> Err(ParseError(NoViewList)), bnl |-> f]
        ELSE
          LET w == DVL_write_bytes(dvl.val, data, f.buffer_bytes)
              f2 == [f EXCEPT !.buffer_bytes = w.resource]
          IN
          IF IsPanic(w.res) THEN [res |-> Panic, bnl |-> f2]
          ELSE IF IsErr(w.res)
          THEN [res |-> Err(ParseError("ErrorParsingDescriptor")), bnl |-> f2]
          ELSE [res |-> Ok(<< >>), bnl |-> f2]

\* the row written after the section instead of over its own 160 bytes
RowWriteMut(asset_desc_bytes, start, row) == asset_desc_bytes \o row

\* self.asset_desc_bytes[start..end].copy_from_slice(&asset_desc.to_bytes())
RowWrite(asset_desc_bytes, start, row) == CopyInto(asset_desc_bytes, start, row)

\* update_asset_description rewriting the row after that of the record
BNL_update_asset_description_mut(f, asset_desc) ==
    LET start == (asset_desc.asset_desc_index + 1) * ASSET_DESCRIPTION_SIZE
        end == start + ASSET_DESCRIPTION_SIZE
    IN
    IF ~InRange(f.asset_desc_bytes, start, end) THEN [res |-> Panic, bnl |-> f]
    ELSE [res |-> Ok(<< >>),
          bnl |-> [f EXCEPT !.asset_desc_bytes = RowWrite(@, start, AD_to_bytes(asset_desc))]]

\* BNLFile::update_asset_description: the row of the section is rewritten;
\* self.asset_descriptions is not touched
BNL_update_asset_description(f, asset_desc) ==
    LET start == asset_desc.asset_desc_index * ASSET_DESCRIPTION_SIZE
        end == start + ASSET_DESCRIPTION_SIZE
    IN
    IF ~InRange(f.asset_desc_bytes, start, end) THEN [res |-> Panic, bnl |-> f]
    ELSE [res |-> Ok(<< >>),
          bnl |-> [f EXCEPT !.asset_desc_bytes = RowWrite(@, start, AD_to_bytes(asset_desc))]]

\* the filter with touching ranges let through
Overlaps_mut(start1, end1, start2, end2) == start1 <= end2 /\ start2 <= end1

\* the closure given to filter: start1 < end2 && start2 < end1
Overlaps(start1, end1, start2, end2) == start1 < end2 /\ start2 < end1

\* BNLFile::get_assets_occupying_descriptor_range: the positions of the
\* records whose descriptor interval overlaps start1..end1
BNL_get_assets_occupying_descriptor_range(f, start1, end1) ==
    LET table == f.asset_descriptions
        hit(i) == LET start2 == table[i].descriptor_ptr
                      end2 == start2 + table[i].descriptor_size
                  IN Overlaps(start1, end1, start2, end2)
        RECURSIVE pick(_)
        pick(i) == IF i > Len(table) THEN << >>
                   ELSE (IF hit(i) THEN << i >> ELSE << >>) \o pick(i + 1)
    IN pick(1)

\* lines 549-562 of update_asset_from_descriptor: "if let Some(data)".
\* data is << >> for None and << bytes >> for Some(bytes).
UpdateResourcePart(f, asset_desc, data, overflow_checks) ==
    IF data = << >> THEN [res |-> Ok(<< >>), bnl |-> f]
    ELSE
      LET dvl == BNL_get_dataview_list(f, asset_desc.dataview_list_ptr, overflow_checks)
      IN
      IF IsPanic(dvl) THEN [res |-> Panic, bnl |-> f]
      ELSE IF IsErr(dvl) THEN [res |-> Err(ParseError(NoViewList)), bnl |-> f]
      ELSE
        LET w == DVL_write_bytes(dvl.val, data[1], f.buffer_bytes)
            f2 == [f EXCEPT !.buffer_bytes = w.resource]
        IN
        IF IsPanic(w.res) THEN [res |-> Panic, bnl |-> f2]
        ELSE IF IsErr(w.res)
        THEN [res |-> Err(ParseError("ErrorParsingDescriptor")), bnl |-> f2]
        ELSE [res |-> Ok(<< >>), bnl |-> f2]

\* BNLFile::update_asset_from_descriptor::<ScriptDescriptor>.  asset_desc
\* is a clone of the table's record: the new descriptor_size goes to the
\* clone and, through update_asset_description, to the section bytes.
BNL_update_asset_from_descriptor(f, name, descriptor, data, overflow_checks) ==
    LET i == FindIndex(f.asset_descriptions, name) IN
    IF i = 0 THEN [res |-> Err(NotFound), bnl |-> f]
    ELSE IF f.asset_descriptions[i].asset_type # ResScript
    THEN [res |-> Err(TypeMismatch), bnl |-> f]
    ELSE
      LET prev_descriptor == BNL_get_descriptor(f, name) IN
      IF ~IsOk(prev_descriptor) THEN [res |-> prev_descriptor, bnl |-> f]
      ELSE
        LET new_size == SD_size(descriptor)
            prev_size == SD_size(prev_descriptor.val)
        IN
        IF new_size > prev_size THEN [res |-> Err(ParseError(CannotGrow)), bnl |-> f]
        ELSE
          LET asset_desc == [f.asset_descriptions[i] EXCEPT !.descriptor_size = new_size]
              start == asset_desc.descriptor_ptr
              end == start + new_size
              to_bytes == SD_to_bytes(descriptor)
          IN
          IF ~InRange(f.descriptor_bytes, start, end) THEN [res |-> Panic, bnl |-> f]
          ELSE IF Len(to_bytes.val) # end - start THEN [res |-> Panic, bnl |-> f]
          ELSE
            LET f2 == [f EXCEPT !.descriptor_bytes = CopyInto(@, start, to_bytes.val)]
                r == UpdateResourcePart(f2, asset_desc, data, overflow_checks)
            IN
            IF ~IsOk(r.res) THEN r
            ELSE BNL_update_asset_description(r.bnl, asset_desc)

-----------------------------------------------------------------------------
(* State *)

VARIABLES
    header,               \* BNLFile.header
    asset_desc_bytes,     \* BNLFile.asset_desc_bytes
    buffer_views_bytes,   \* BNLFile.buffer_views_bytes; the view list bytes of SpecDVL
    buffer_bytes,         \* BNLFile.buffer_bytes; the backing buffer of SpecDVL
    descriptor_bytes,     \* BNLFile.descriptor_bytes
    asset_descriptions,   \* BNLFile.asset_descriptions
    file,                 \* the bytes handed to BNLFile::from_bytes
    vr,                   \* VirtualResource.slices
    overflow_checks,      \* whether the build checks integer overflow
    pc,                   \* "start": no file loaded; "loaded": a BNLFile as from_bytes
                          \* built it; "modified": after an update call; "saved",
                          \* "saved_modified": to_bytes() of it is in file; "failed":
                          \* from_bytes returned Err; "aborted": a panic; "dvl", "vr"
    last                  \* the last call: its name, arguments and result

vars == << header, asset_desc_bytes, buffer_views_bytes, buffer_bytes, descriptor_bytes,
           asset_descriptions, file, vr, overflow_checks, pc, last >>

\* the BNLFile of the state
Self ==
    [header |-> header, asset_desc_bytes |-> asset_desc_bytes,
     buffer_views_bytes |-> buffer_views_bytes, buffer_bytes |-> buffer_bytes,
     descriptor_bytes |-> descriptor_bytes, asset_descriptions |-> asset_descriptions]

\* the state's BNLFile becomes f
Becomes(f) ==
    /\ header' = f.header
    /\ asset_desc_bytes' = f.asset_desc_bytes
    /\ buffer_views_bytes' = f.buffer_views_bytes
    /\ buffer_bytes' = f.buffer_bytes
    /\ descriptor_bytes' = f.descriptor_bytes
    /\ asset_descriptions' = f.asset_descriptions

NoDescriptor == [operations |-> << >>]

\* the record of a call
Call(op, name, descriptor, data, offset, size, res) ==
    [op |-> op, name |-> name, descriptor |-> descriptor, data |-> data,
     offset |-> offset, size |-> size, res |-> res]

NoCall == Call("none", << >>, NoDescriptor, << >>, 0, 0, Ok(<< >>))

\* after a panic the process is gone; after a failed load there is no file
AfterCall(res) == IF IsPanic(res) THEN "aborted" ELSE pc

\* the variables of the BNLFile at BNLFile::default()
DefaultFile ==
    /\ header = DefaultHeader
    /\ asset_desc_bytes = << >>
    /\ buffer_views_bytes = << >>
    /\ buffer_bytes = << >>
    /\ descriptor_bytes = << >>
    /\ asset_descriptions = << >>

FileUnchanged ==
    UNCHANGED << header, asset_desc_bytes, buffer_views_bytes, buffer_bytes,
                 descriptor_bytes, asset_descriptions >>

-----------------------------------------------------------------------------
(* SpecVR: VirtualResource::get_bytes and get_all_bytes on bounded inputs *)

MaxSlices == 3

MaxSliceLen == 2

\* slice i of a resource holds the bytes 16 i, 16 i + 1, ...: no two bytes
\* of a resource are equal, so a byte copied from the wrong place shows
SliceOf(i, n) == [j \in 1..n |-> 16 * i + (j - 1)]

SliceLengths == UNION {[1..n -> 0..MaxSliceLen] : n \in 0..MaxSlices}

\* VirtualResource::from_slices on each list of slices
VRInputs == {[i \in 1..Len(ls) |-> SliceOf(i, ls[i])] : ls \in SliceLengths}

InitVR ==
    /\ DefaultFile
    /\ file = << >>
    /\ vr \in VRInputs
    /\ overflow_checks \in BOOLEAN
    /\ pc = "vr"
    /\ last = NoCall

\* a call of get_bytes(start_offset, get_size)
VrGetBytes ==
    /\ pc = "vr"
    /\ \E start_offset \in 0..(VR_len(vr) + 1), get_size \in 0..(VR_len(vr) + 1) :
         LET r == VR_get_bytes(vr, start_offset, get_size) IN
         /\ last' = Call("get_bytes", << >>, NoDescriptor, << >>, start_offset, get_size, r)
         /\ pc' = AfterCall(r)
    /\ FileUnchanged
    /\ UNCHANGED << file, vr, overflow_checks >>

\* a call of get_all_bytes()
VrGetAllBytes ==
    /\ pc = "vr"
    /\ LET r == VR_get_all_bytes(vr) IN
         /\ last' = Call("get_all_bytes", << >>, NoDescriptor, << >>, 0, 0, r)
         /\ pc' = AfterCall(r)
    /\ FileUnchanged
    /\ UNCHANGED << file, vr, overflow_checks >>

NextVR == VrGetBytes \/ VrGetAllBytes

SpecVR == InitVR /\ [][NextVR]_vars

\* C1: get_bytes(offset, length) with offset + length <= len() returns
\* exactly the bytes offset .. offset+length of the concatenated slices,
\* however many slice boundaries the range crosses and through slices of
\* length zero.
C1_GetBytesExact ==
    (pc = "vr" /\ last.op = "get_bytes" /\ last.offset + last.size <= VR_len(vr))
        => last.res = Ok(Sl(Concat(vr), last.offset, last.offset + last.size))

\* C1: a read that starts inside the first slice, passes a slice of length
\* zero and ends inside the third slice
C1_Witness ==
    /\ last.op = "get_bytes"
    /\ Len(vr) = 3 /\ Len(vr[1]) = 2 /\ Len(vr[2]) = 0 /\ Len(vr[3]) = 2
    /\ last.offset = 1 /\ last.size = 2
    /\ last.res = Ok(<< 17, 48 >>)

\* C13: get_bytes(offset, length) returns OffsetOutOfBounds exactly when
\* offset > len(), SizeOutOfBounds exactly when offset <= len() and
\* offset + length > len(), and succeeds in every other case.
C13_GetBytesErrors ==
    last.op = "get_bytes" =>
        LET n == VR_len(vr) IN
        /\ last.res = Err("OffsetOutOfBounds") <=> last.offset > n
        /\ last.res = Err("SizeOutOfBounds")
              <=> (last.offset <= n /\ last.offset + last.size > n)
        /\ IsOk(last.res) <=> last.offset + last.size <= n

\* C13: a read of no bytes at the end of a resource of several slices succeeded
C13_Witness ==
    /\ last.op = "get_bytes"
    /\ Len(vr) >= 2 /\ VR_len(vr) > 0
    /\ last.offset = VR_len(vr) /\ last.size = 0
    /\ IsOk(last.res)

-----------------------------------------------------------------------------
(* SpecDVL: DataViewList::from_bytes, slices and write_bytes, and          *)
(* VirtualResource::from_dvl, on bounded inputs                           *)

MaxViews == 2

BufLen == 4

MaxViewSize == 2

\* the backing buffer: BufLen bytes, all different
Backing == [k \in 1..BufLen |-> 9 + k]

\* views with offsets up to the end of the backing buffer, so that some
\* reach past it
ViewSet == {[offset |-> o, size |-> z] : o \in 0..BufLen, z \in 0..MaxViewSize}

ViewLists == UNION {[1..n -> ViewSet] : n \in 1..MaxViews}

\* the on-disk form of a view list: size, num_views, then (offset, size) pairs
EncodeViewList(size, num_views, views) ==
    LE32(size) \o LE32(num_views)
      \o Concat([i \in 1..Len(views) |-> LE32(views[i].offset) \o LE32(views[i].size)])

GoodViewList(views) == EncodeViewList(DATA_VIEW_SIZE * Len(views) + 8, Len(views), views)

\* view lists cut short, with a count of zero, with a size that does not
\* match the count, followed by other bytes, and with a count for which
\* num_views * 8 + 8 passes u32::MAX (2^29 - 1 and 2^29 + 1)
SampleViews == << [offset |-> 0, size |-> 1], [offset |-> 2, size |-> 2] >>

MalformedViewLists ==
    UNION {{Sl(GoodViewList(SubSeq(SampleViews, 1, n)), 0, k) :
              k \in 0..(DATA_VIEW_SIZE * n + 7)} : n \in 1..2}
    \cup {EncodeViewList(8, 0, << >>),
          EncodeViewList(8, 1, SubSeq(SampleViews, 1, 1)),
          EncodeViewList(24, 1, SampleViews),
          GoodViewList(SampleViews) \o << 7, 7, 7 >>,
          EncodeViewList(0, U32_WRAP_VIEWS - 1, << >>),
          EncodeViewList(16, U32_WRAP_VIEWS + 1, SubSeq(SampleViews, 1, 1))}

ViewListInputs == {GoodViewList(vs) : vs \in ViewLists} \cup MalformedViewLists

\* the bytes handed to write_bytes: n bytes, all different
WriteInput(n) == [k \in 1..n |-> 100 + k]

InitDVL ==
    /\ header = DefaultHeader
    /\ asset_desc_bytes = << >>
    /\ buffer_views_bytes \in ViewListInputs
    /\ buffer_bytes = Backing
    /\ descriptor_bytes = << >>
    /\ asset_descriptions = << >>
    /\ file = << >>
    /\ vr = << >>
    /\ overflow_checks \in BOOLEAN
    /\ pc = "dvl"
    /\ last = NoCall

\* the list the calls below act on
ParsedList == DVL_from_bytes(buffer_views_bytes, overflow_checks)

\* DataViewList::from_bytes(view_bytes)
DvlFromBytes ==
    /\ pc = "dvl" /\ last.op = "none"
    /\ last' = Call("dvl_from_bytes", << >>, NoDescriptor, << >>, 0, 0, ParsedList)
    /\ pc' = AfterCall(ParsedList)
    /\ UNCHANGED << header, asset_desc_bytes, buffer_views_bytes, buffer_bytes,
                    descriptor_bytes, asset_descriptions, file, vr, overflow_checks >>

\* dvl.slices(&backing)
DvlSlices ==
    /\ pc = "dvl" /\ last.op = "dvl_from_bytes" /\ IsOk(ParsedList)
    /\ LET r == DVL_slices(ParsedList.val, buffer_bytes) IN
         /\ last' = Call("slices", << >>, NoDescriptor, << >>, 0, 0, r)
         /\ pc' = AfterCall(r)
    /\ UNCHANGED << header, asset_desc_bytes, buffer_views_bytes, buffer_bytes,
                    descriptor_bytes, asset_descriptions, file, vr, overflow_checks >>

\* VirtualResource::from_dvl(&dvl, &backing); the resource is kept in vr
DvlResolve ==
    /\ pc = "dvl" /\ last.op = "dvl_from_bytes" /\ IsOk(ParsedList)
    /\ LET r == VR_from_dvl(ParsedList.val, buffer_bytes) IN
         /\ last' = Call("from_dvl", << >>, NoDescriptor, << >>, 0, 0, r)
         /\ vr' = IF IsOk(r) THEN r.val ELSE vr
         /\ pc' = AfterCall(r)
    /\ UNCHANGED << header, asset_desc_bytes, buffer_views_bytes, buffer_bytes,
                    descriptor_bytes, asset_descriptions, file, overflow_checks >>

\* dvl.write_bytes(bytes, &mut backing)
DvlWriteBytes ==
    /\ pc = "dvl" /\ last.op = "dvl_from_bytes" /\ IsOk(ParsedList)
    /\ \E n \in 0..(DVL_len(ParsedList.val) + 1) :
         LET w == DVL_write_bytes(ParsedList.val, WriteInput(n), buffer_bytes) IN
         /\ buffer_bytes' = w.resource
         /\ last' = Call("write_bytes", << >>, NoDescriptor, << WriteInput(n) >>, 0, 0, w.res)
         /\ pc' = AfterCall(w.res)
    /\ UNCHANGED << header, asset_desc_bytes, buffer_views_bytes,
                    descriptor_bytes, asset_descriptions, file, vr, overflow_checks >>

\* get_all_bytes() of the resource that from_dvl built
DvlGetAllBytes ==
    /\ pc = "dvl" /\ last.op = "from_dvl" /\ IsOk(last.res)
    /\ LET r == VR_get_all_bytes(vr) IN
         /\ last' = Call("get_all_bytes", << >>, NoDescriptor, << >>, 0, 0, r)
         /\ pc' = AfterCall(r)
    /\ UNCHANGED << header, asset_desc_bytes, buffer_views_bytes, buffer_bytes,
                    descriptor_bytes, asset_descriptions, file, vr, overflow_checks >>

NextDVL == DvlFromBytes \/ DvlSlices \/ DvlResolve \/ DvlWriteBytes \/ DvlGetAllBytes

SpecDVL == InitDVL /\ [][NextDVL]_vars

\* C6: write_bytes with bytes whose length differs from the sum of the
\* view sizes returns the size error (SizeOutOfBounds) and leaves the
\* backing buffer as it was.
C6_WriteSizeMismatch ==
    [][(last'.op = "write_bytes" /\ last.op = "dvl_from_bytes"
        /\ Len(last'.data[1]) # DVL_len(ParsedList.val))
          => (last'.res = Err("SizeOutOfBounds") /\ buffer_bytes' = buffer_bytes)]_vars

\* C6: a write of too few bytes to a list of two views that lie inside
\* the backing buffer was refused
C6_Witness ==
    /\ last.op = "write_bytes"
    /\ IsOk(ParsedList) /\ Len(ParsedList.val.views) = 2
    /\ IsOk(DVL_slices(ParsedList.val, buffer_bytes))
    /\ Len(last.data[1]) > 0 /\ Len(last.data[1]) < DVL_len(ParsedList.val)
    /\ IsErr(last.res)

\* C10: on an input of at least 8 bytes whose header is consistent
\* (view_count >= 1, declared_size = view_count*8 + 8) but which holds
\* fewer than view_count*8 + 8 bytes, from_bytes returns an error value:
\* it does not abort.
C10_TruncatedIsError ==
    (/\ last.op = "dvl_from_bytes"
     /\ Len(buffer_views_bytes) >= 8
     /\ U32At(buffer_views_bytes, 4) >= 1
     /\ U32At(buffer_views_bytes, 0) % 8 = 0
     /\ U32At(buffer_views_bytes, 0) \div 8 = U32At(buffer_views_bytes, 4) + 1
     /\ (Len(buffer_views_bytes) - 8) \div 8 < U32At(buffer_views_bytes, 4))
        => IsErr(last.res)

\* C11: from_bytes returns no list for an input shorter than 8 bytes, for
\* view_count = 0 and for declared_size # view_count*8 + 8; every list it
\* returns has size = num_views*8 + 8, num_views >= 1 and num_views views,
\* view i being the little-endian (offset, size) pair at bytes
\* [8 + 8i, 16 + 8i) of the input.
C11_HeaderValidated ==
    last.op = "dvl_from_bytes" =>
        LET b == buffer_views_bytes IN
        /\ Len(b) < 8 => ~IsOk(last.res)
        /\ (Len(b) >= 8 /\ U32At(b, 4) = 0) => ~IsOk(last.res)
        /\ (Len(b) >= 8 /\ ~(U32At(b, 0) % 8 = 0 /\ U32At(b, 0) \div 8 = U32At(b, 4) + 1))
              => ~IsOk(last.res)
        /\ IsOk(last.res) =>
              LET dvl == last.res.val IN
              /\ dvl.num_views >= 1
              /\ dvl.size % 8 = 0 /\ dvl.size \div 8 = dvl.num_views + 1
              /\ Len(dvl.views) = dvl.num_views
              /\ \A i \in 1..Len(dvl.views) :
                    /\ dvl.views[i].offset = U32At(b, 8 * i)
                    /\ dvl.views[i].size = U32At(b, 8 * i + 4)

\* C11: a list of two views, followed by other bytes, was parsed
C11_Witness ==
    /\ last.op = "dvl_from_bytes"
    /\ IsOk(last.res)
    /\ Len(last.res.val.views) = 2
    /\ Len(buffer_views_bytes) > 24

\* C12: resolving a parsed list against the backing buffer, through slices
\* and through from_dvl, returns an error value when some view has
\* offset + size above the length of the buffer, and otherwise returns
\* one slice per view, slice i being backing[offset_i .. offset_i + size_i].
C12_OutOfBoundsIsError ==
    last.op \in {"slices", "from_dvl"} =>
        LET views == ParsedList.val.views IN
        IF \E i \in 1..Len(views) : views[i].offset + views[i].size > Len(buffer_bytes)
        THEN IsErr(last.res)
        ELSE /\ IsOk(last.res)
             /\ Len(last.res.val) = Len(views)
             /\ \A i \in 1..Len(views) :
                   last.res.val[i]
                     = Sl(buffer_bytes, views[i].offset, views[i].offset + views[i].size)

\* C14: get_all_bytes() equals get_bytes(0, len()); for a resource that
\* from_dvl built from a parsed list, the result has len() bytes and len()
\* is the sum of the view sizes of the list.
C14_GetAllBytes ==
    last.op = "get_all_bytes" =>
        /\ last.res = VR_get_bytes(vr, 0, VR_len(vr))
        /\ pc = "dvl" =>
              /\ IsOk(last.res)
              /\ Len(last.res.val) = VR_len(vr)
              /\ VR_len(vr) = DVL_len(ParsedList.val)

\* C14: the bytes of a resource of two views that overlap in the backing buffer
C14_Witness ==
    /\ pc = "dvl"
    /\ last.op = "get_all_bytes"
    /\ ParsedList.val.views = << [offset |-> 0, size |-> 2], [offset |-> 1, size |-> 2] >>
    /\ last.res = Ok(<< 10, 11, 11, 12 >>)

-----------------------------------------------------------------------------
(* Spec: a BNLFile loaded from a file, then looked up and mutated *)

\* the ASCII names "a", "b" and "z"
NameA == << 97 >>

NameB == << 98 >>

NameZ == << 122 >>

\* a 160-byte row as it lies on disk
RowBytes(name, asset_type, descriptor_ptr, descriptor_size, dataview_list_ptr, resource_size) ==
    name \o Zeros(ASSET_NAME_SIZE - Len(name))
      \o LE32(asset_type) \o LE32(3) \o LE32(5) \o LE32(1)
      \o LE32(descriptor_ptr) \o LE32(descriptor_size)
      \o LE32(dataview_list_ptr) \o LE32(resource_size)

\* a script operation as it lies on disk
OpBytes(opcode, operand_bytes) ==
    LE32(Len(operand_bytes) + 8) \o LE32(opcode) \o operand_bytes

EndScriptBytes == OpBytes(0, << >>)

\* the descriptor section: the script of "a" (one SetBackground operation
\* of 12 bytes, then EndScript: 20 bytes) at 0, the script of "b"
\* (EndScript alone) at 20
DescriptorSection == OpBytes(1, << 1, 2, 3, 4 >>) \o EndScriptBytes \o EndScriptBytes

\* the raw buffer
BufferSection == << 10, 11, 12, 13, 14, 15 >>

\* the view-list section: the list of "a" at 0, the list of "b" after it.
\*   "good": a = (0,2) (4,2), b = (2,2)
\*   "oob":  a = (0,2) (5,2), the second view reaches past the buffer
ViewSection(kind) ==
    LET a == IF kind = "oob"
             THEN GoodViewList(<< [offset |-> 0, size |-> 2], [offset |-> 5, size |-> 2] >>)
             ELSE GoodViewList(<< [offset |-> 0, size |-> 2], [offset |-> 4, size |-> 2] >>)
        b == GoodViewList(<< [offset |-> 2, size |-> 2] >>)
    IN a \o b

\* what a file of the model is made from
BaseParams ==
    [layout |-> "packed", views |-> "good", a_size |-> 20, a_views_ptr |-> 0, b_type |-> ResScript,
     a_desc_ptr |-> 0, b_desc_ptr |-> 20, b_name |-> NameB]

\* the files: the base file and the files that differ from it in one
\* respect.  layout: the sections packed in the order of the header after
\* byte 40, or the same after 8 bytes of padding.  a_size: the
\* descriptor_size of "a", 20 or less than its script takes.  a_views_ptr:
\* 0, 36 (4 bytes before the end of the section) or 100 (past the end).
\* b_type: script or texture.
InputParams ==
    {BaseParams}
    \cup {[BaseParams EXCEPT !.layout = "padded"]}
    \cup {[BaseParams EXCEPT !.views = "oob"]}
    \cup {[BaseParams EXCEPT !.a_size = 12]}
    \cup {[BaseParams EXCEPT !.a_views_ptr = x] : x \in {36, 100}}
    \cup {[BaseParams EXCEPT !.b_type = ResTexture]}

\* the bytes of the file made from p
MakeFile(p) ==
    LET s1 == RowBytes(NameA, ResScript, p.a_desc_ptr, p.a_size, p.a_views_ptr, 4)
                \o RowBytes(p.b_name, p.b_type, p.b_desc_ptr, 8, 24, 2)
        s2 == ViewSection(p.views)
        s3 == BufferSection
        s4 == DescriptorSection
        pad == IF p.layout = "padded" THEN << 255, 255, 255, 255, 255, 255, 255, 255 >> ELSE << >>
        off1 == HEADER_SIZE + Len(pad)
        off2 == off1 + Len(s1)
        off3 == off2 + Len(s2)
        off4 == off3 + Len(s3)
        body == pad \o s1 \o s2 \o s3 \o s4
    IN << 2, 0, 1 >> \o << 0, 0, 0, 0, 0 >>
         \o LE32(off1) \o LE32(Len(s1)) \o LE32(off2) \o LE32(Len(s2))
         \o LE32(off3) \o LE32(Len(s3)) \o LE32(off4) \o LE32(Len(s4))
         \o Deflate(body)

InputFiles == {MakeFile(p) : p \in InputParams}

\* the names the calls are made with: two that are in the table, one that is not
Names == {NameA, NameB, NameZ}

\* resource bytes: 4 bytes (the logical length of "a"), 2 bytes (that of "b")
ResourceInputs == {<< 21, 22, 23, 24 >>, << 31, 32 >>}

\* descriptors, as a caller gets them: parsed from bytes, and one whose
\* first operation was then lengthened through operand_bytes_mut(), which
\* leaves the operation's size field as it was
ParsedDescriptor(bytes) == SD_from_bytes(bytes).val

DescEnd == ParsedDescriptor(EndScriptBytes)

DescSame == ParsedDescriptor(Sl(DescriptorSection, 0, 20))

DescBig == ParsedDescriptor(OpBytes(1, << 1, 2, 3, 4, 5, 6, 7, 8 >>) \o EndScriptBytes)

DescEdited ==
    [DescSame EXCEPT !.operations[1].operand_bytes = @ \o << 8, 8, 8, 8 >>]

\* a script of an operation without operands and EndScript: 16 bytes
DescShort == ParsedDescriptor(OpBytes(2, << >>) \o EndScriptBytes)

DescriptorInputs == {DescEnd, DescSame, DescBig, DescEdited}

Init ==
    /\ DefaultFile
    /\ file \in InputFiles
    /\ vr = << >>
    /\ overflow_checks \in BOOLEAN
    /\ pc = "start"
    /\ last = NoCall

\* BNLFile::from_bytes(&file), on the input file or on the bytes to_bytes()
\* gave; the caller's buffer is dropped after the call
FromBytes ==
    /\ pc \in {"start", "saved", "saved_modified"}
    /\ LET r == BNL_from_bytes(file) IN
         /\ IF IsOk(r) THEN Becomes(r.val) ELSE FileUnchanged
         /\ pc' = IF IsOk(r) THEN "loaded" ELSE IF IsPanic(r) THEN "aborted" ELSE "failed"
         /\ last' = Call("from_bytes", << >>, NoDescriptor, << >>, 0, 0,
                         IF IsOk(r) THEN Ok(<< >>) ELSE r)
    /\ file' = << >>
    /\ UNCHANGED << vr, overflow_checks >>

\* file = self.to_bytes()
ToBytes ==
    /\ pc \in {"loaded", "modified"}
    /\ file' = BNL_to_bytes(Self)
    /\ pc' = IF pc = "loaded" THEN "saved" ELSE "saved_modified"
    /\ last' = Call("to_bytes", << >>, NoDescriptor, << >>, 0, 0, Ok(<< >>))
    /\ FileUnchanged
    /\ UNCHANGED << vr, overflow_checks >>

\* self.get_raw_assets()
GetRawAssets ==
    /\ pc \in {"loaded", "modified"}
    /\ LET r == BNL_get_raw_assets(Self, overflow_checks) IN
         /\ last' = Call("get_raw_assets", << >>, NoDescriptor, << >>, 0, 0, r)
         /\ pc' = AfterCall(r)
    /\ FileUnchanged
    /\ UNCHANGED << file, vr, overflow_checks >>

\* self.update_asset::<Script>(name, asset) with asset.resource_data() = data
UpdateAsset ==
    /\ pc \in {"loaded", "modified"}
    /\ \E name \in Names, data \in ResourceInputs :
         LET r == BNL_update_asset(Self, name, data, overflow_checks) IN
         /\ Becomes(r.bnl)
         /\ last' = Call("update_asset", name, NoDescriptor, << data >>, 0, 0, r.res)
         /\ pc' = IF IsPanic(r.res) THEN "aborted" ELSE "modified"
    /\ UNCHANGED << file, vr, overflow_checks >>

\* self.update_asset_from_descriptor(name, &descriptor, data), data being
\* None (<< >>) or Some(bytes) (<< bytes >>)
\* self.update_asset_from_descriptor(name, descriptor, data), descriptor
\* being one of descriptors
UpdateFromDescriptor(descriptors) ==
    /\ pc \in {"loaded", "modified"}
    /\ \E name \in Names, descriptor \in descriptors,
          data \in {<< >>} \cup {<< d >> : d \in ResourceInputs} :
         LET r == BNL_update_asset_from_descriptor(Self, name, descriptor, data,
                                                   overflow_checks)
         IN
         /\ Becomes(r.bnl)
         /\ last' = Call("update_asset_from_descriptor", name, descriptor, data, 0, 0, r.res)
         /\ pc' = IF IsPanic(r.res) THEN "aborted" ELSE "modified"
    /\ UNCHANGED << file, vr, overflow_checks >>

UpdateAssetFromDescriptor == UpdateFromDescriptor(DescriptorInputs)

Next == FromBytes \/ ToBytes \/ GetRawAssets \/ UpdateAsset \/ UpdateAssetFromDescriptor

Spec == Init /\ [][Next]_vars

-----------------------------------------------------------------------------
\* the calls that mutate a BNLFile
UpdateOps == {"update_asset", "update_asset_from_descriptor"}

\* the BNLFile of the next state is byte for byte that of this state
SameFile ==
    /\ asset_desc_bytes' = asset_desc_bytes
    /\ buffer_views_bytes' = buffer_views_bytes
    /\ buffer_bytes' = buffer_bytes
    /\ descriptor_bytes' = descriptor_bytes
    /\ asset_descriptions' = asset_descriptions

\* C2: a BNLFile that from_bytes built, serialized with to_bytes and loaded
\* again with from_bytes, loads successfully and gives the same table of
\* AssetDescriptions and the same four section buffers.
C2_RoundTrip ==
    [][(pc = "saved" /\ last'.op = "from_bytes") => (IsOk(last'.res) /\ SameFile)]_vars

\* C3: after any sequence of update_asset and update_asset_from_descriptor
\* calls, parsing the asset-description section row by row gives exactly the
\* table in memory.
C3_TableCoherent ==
    pc \in {"loaded", "modified"} =>
        ReadDescriptions(asset_desc_bytes, 0, 0, Len(asset_descriptions), << >>)
            = Ok(asset_descriptions)

\* C4: an update_asset or update_asset_from_descriptor call that returns an
\* error leaves the four section buffers and the table as they were.
C4_ErrorChangesNothing ==
    [][(last'.op \in UpdateOps /\ IsErr(last'.res)) => SameFile]_vars

\* the view list of a record parses at its dataview_list_ptr and every
\* view of it lies inside the raw buffer
Resolvable(asset_desc) ==
    LET ptr == asset_desc.dataview_list_ptr IN
    /\ ptr <= Len(buffer_views_bytes)
    /\ LET dvl == DVL_from_bytes(Sl(buffer_views_bytes, ptr, Len(buffer_views_bytes)),
                                 overflow_checks)
       IN /\ IsOk(dvl)
          /\ \A k \in 1..Len(dvl.val.views) :
                dvl.val.views[k].offset + dvl.val.views[k].size <= Len(buffer_bytes)

\* C5: get_raw_assets returns, and its result holds, in the order of the
\* table, one RawAsset for every record whose view list parses and lies
\* inside the raw buffer; the other records are skipped.
C5_PartialFailureTolerated ==
    last.op = "get_raw_assets" =>
        /\ IsOk(last.res)
        /\ LET good == SelectSeq(asset_descriptions, Resolvable) IN
           /\ Len(last.res.val) = Len(good)
           /\ \A k \in 1..Len(good) : last.res.val[k].name = AD_name(good[k])

\* C7: update_asset_from_descriptor with a descriptor whose to_bytes() is
\* longer than the descriptor_size of the record returns the error "the
\* descriptor can not grow in size" and leaves the descriptor section as it was.
C7_GrowthRejected ==
    [][LET i == FindIndex(asset_descriptions, last'.name) IN
       (/\ last'.op = "update_asset_from_descriptor"
        /\ i # 0
        /\ asset_descriptions[i].asset_type = ResScript
        /\ Len(SD_to_bytes(last'.descriptor).val) > asset_descriptions[i].descriptor_size)
       => (/\ last'.res = Err(ParseError(CannotGrow))
           /\ descriptor_bytes' = descriptor_bytes)]_vars

\* C8: after a successful update_asset_from_descriptor(name, d, None) with
\* n = d.to_bytes().len() not above the descriptor_size of the record, the
\* descriptor section holds d.to_bytes() at descriptor_ptr, the record has
\* descriptor_size n and is otherwise unchanged, and the row of the record
\* in the asset-description section is the serialization of that record.
C8_UpdateEffect ==
    [][LET i == FindIndex(asset_descriptions, last'.name)
           bytes == SD_to_bytes(last'.descriptor).val
           n == Len(bytes)
       IN
       (/\ last'.op = "update_asset_from_descriptor"
        /\ last'.data = << >>
        /\ IsOk(last'.res)
        /\ n <= asset_descriptions[i].descriptor_size)
       => LET old == asset_descriptions[i]
              updated == [old EXCEPT !.descriptor_size = n]
              row == old.asset_desc_index * ASSET_DESCRIPTION_SIZE
          IN /\ Sl(descriptor_bytes', old.descriptor_ptr, old.descriptor_ptr + n) = bytes
             /\ asset_descriptions'[i] = updated
             /\ Sl(asset_desc_bytes', row, row + ASSET_DESCRIPTION_SIZE) = AD_to_bytes(updated)
      ]_vars

\* C9: in every state that update_asset and update_asset_from_descriptor
\* calls lead to, each of the four section buffers has the length the header
\* gives for it, and the table has as many records as were loaded.
C9_FootprintConstant ==
    pc \in {"loaded", "modified"} =>
        /\ Len(asset_desc_bytes) = header.asset_desc_loc.size
        /\ Len(buffer_views_bytes) = header.buffer_views_loc.size
        /\ Len(buffer_bytes) = header.buffer_loc.size
        /\ Len(descriptor_bytes) = header.descriptor_loc.size
        /\ Len(asset_descriptions) = header.asset_desc_loc.size \div ASSET_DESCRIPTION_SIZE

\* a successful update_asset_from_descriptor with resource bytes, after
\* which the descriptor section, the raw buffer and a row all differ from
\* what was loaded
C9_Witness ==
    /\ pc = "modified"
    /\ last.op = "update_asset_from_descriptor"
    /\ IsOk(last.res)
    /\ last.data # << >>
    /\ descriptor_bytes # DescriptorSection
    /\ buffer_bytes # BufferSection
    /\ \E i \in 1..Len(asset_descriptions) :
          Sl(asset_desc_bytes, (i - 1) * ASSET_DESCRIPTION_SIZE, i * ASSET_DESCRIPTION_SIZE)
              # AD_to_bytes(asset_descriptions[i])

-----------------------------------------------------------------------------
(* SpecLookup: a BNLFile loaded from a file, then looked up *)

\* the files of the lookups: those of InputParams and files that differ
\* from the base file in one more respect.  b_name: "b", or "a" a second
\* time.  a_desc_ptr: 0 or 40 (past the 28 bytes of the descriptor
\* section).  a_size: 40 (descriptor_ptr + descriptor_size past the
\* section).  b_desc_ptr: 20, 24 (4 bytes before the end of the section:
\* a truncated script) or 40.  b_type: also 6, which is no AssetType.
LookupParams ==
    InputParams
    \cup {[BaseParams EXCEPT !.b_name = NameA]}
    \cup {[BaseParams EXCEPT !.a_desc_ptr = 40]}
    \cup {[BaseParams EXCEPT !.a_size = 40]}
    \cup {[BaseParams EXCEPT !.b_desc_ptr = 24]}
    \cup {[BaseParams EXCEPT !.b_desc_ptr = 24, !.b_type = ResTexture]}
    \cup {[BaseParams EXCEPT !.b_desc_ptr = 40, !.b_type = ResTexture]}
    \cup {[BaseParams EXCEPT !.b_type = 6]}

\* files that do not load: the base file cut to 39 bytes and the empty
\* file (shorter than the header), the header of the base file followed by
\* bytes that are no zlib stream, and the base file with a descriptor_loc
\* one byte longer than what follows its offset
BrokenFiles ==
    LET f == MakeFile(BaseParams) IN
    {Sl(f, 0, HEADER_SIZE - 1),
     << >>,
     Sl(f, 0, HEADER_SIZE) \o << 1, 2, 3 >>,
     Sl(f, 0, 36) \o LE32(Len(DescriptorSection) + 1) \o Sl(f, HEADER_SIZE, Len(f))}

\* the base file with an asset_desc_loc of 330 bytes: two rows and 10
\* bytes more
SlackFile ==
    LET f == MakeFile(BaseParams) IN
    Sl(f, 0, 12) \o LE32(2 * ASSET_DESCRIPTION_SIZE + 10) \o Sl(f, 16, Len(f))

LookupFiles == {MakeFile(p) : p \in LookupParams} \cup BrokenFiles \cup {SlackFile}

\* the bounds of the ranges asked of get_assets_occupying_descriptor_range:
\* the ends of the descriptors of the base file (0, 20, 28) and points
\* inside and after them
RangePoints == {0, 10, 20, 24, 28, 32}

InitLookup ==
    /\ DefaultFile
    /\ file \in LookupFiles
    /\ vr = << >>
    /\ overflow_checks \in BOOLEAN
    /\ pc = "start"
    /\ last = NoCall

\* a lookup call that gave r
Looked(op, name, offset, size, r) ==
    /\ last' = Call(op, name, NoDescriptor, << >>, offset, size, r)
    /\ pc' = AfterCall(r)
    /\ FileUnchanged
    /\ UNCHANGED << file, vr, overflow_checks >>

\* self.get_raw_asset(name)
GetRawAsset ==
    /\ pc = "loaded"
    /\ \E name \in Names :
         Looked("get_raw_asset", name, 0, 0, BNL_get_raw_asset(Self, name, overflow_checks))

\* self.get_asset::<Script>(name)
GetAsset ==
    /\ pc = "loaded"
    /\ \E name \in Names :
         Looked("get_asset", name, 0, 0, BNL_get_asset(Self, name, overflow_checks))

\* self.get_assets::<Script>()
GetAssets ==
    /\ pc = "loaded"
    /\ Looked("get_assets", << >>, 0, 0, BNL_get_assets(Self, overflow_checks))

\* self.get_descriptor::<ScriptDescriptor>(name)
GetDescriptor ==
    /\ pc = "loaded"
    /\ \E name \in Names :
         Looked("get_descriptor", name, 0, 0, BNL_get_descriptor(Self, name))

\* self.get_assets_occupying_descriptor_range(start..end); the result is
\* given as the positions of the records in the table
GetAssetsOccupyingDescriptorRange ==
    /\ pc = "loaded"
    /\ \E start \in RangePoints, end \in RangePoints :
         Looked("get_assets_occupying_descriptor_range", << >>, start, end - start,
                Ok(BNL_get_assets_occupying_descriptor_range(Self, start, end)))

NextLookup ==
    \/ FromBytes
    \/ GetRawAsset
    \/ GetAsset
    \/ GetAssets
    \/ GetDescriptor
    \/ GetAssetsOccupyingDescriptorRange

SpecLookup == InitLookup /\ [][NextLookup]_vars

\* the positions in the table of the records named name
Matches(name) == {i \in 1..Len(asset_descriptions) : AD_name(asset_descriptions[i]) = name}

\* the first of them
FirstMatch(name) == CHOOSE i \in Matches(name) : \A j \in Matches(name) : i <= j

\* view k (from 0) of the view list stored at ptr of the view-list section,
\* cut out of the resource section
StoredSlice(ptr, k) ==
    LET offset == U32At(buffer_views_bytes, ptr + 8 + 8 * k)
        size == U32At(buffer_views_bytes, ptr + 12 + 8 * k)
    IN SubSeq(buffer_bytes, offset + 1, offset + size)

\* C15: get_raw_asset(name) returns NotFound exactly when no record has
\* the name; otherwise the asset it returns is that of the first record of
\* the name in table order: the bytes descriptor_ptr .. descriptor_ptr +
\* descriptor_size of the descriptor section and one slice of the resource
\* section per view of the record's view list, in view order, not joined;
\* and it does return it when the record's descriptor and views lie inside
\* their sections.
C15_RawAssetOfFirst ==
    last.op = "get_raw_asset" =>
        /\ (last.res = Err(NotFound)) <=> (Matches(last.name) = {})
        /\ Matches(last.name) # {} =>
             LET R == asset_descriptions[FirstMatch(last.name)]
                 ptr == R.dataview_list_ptr
             IN /\ IsOk(last.res) =>
                     /\ last.res.val.name = last.name
                     /\ last.res.val.asset_type = R.asset_type
                     /\ last.res.val.descriptor_bytes =
                            SubSeq(descriptor_bytes, R.descriptor_ptr + 1,
                                   R.descriptor_ptr + R.descriptor_size)
                     /\ Len(last.res.val.descriptor_bytes) = R.descriptor_size
                     /\ Len(last.res.val.data_slices) = U32At(buffer_views_bytes, ptr + 4)
                     /\ \A k \in 1..Len(last.res.val.data_slices) :
                            last.res.val.data_slices[k] = StoredSlice(ptr, k - 1)
                /\ (/\ R.descriptor_ptr + R.descriptor_size <= Len(descriptor_bytes)
                    /\ Resolvable(R)) => IsOk(last.res)

\* two records of one name, and the asset of the first of them returned
C15_Witness ==
    /\ last.op = "get_raw_asset"
    /\ Cardinality(Matches(last.name)) = 2
    /\ IsOk(last.res)
    /\ Len(last.res.val.descriptor_bytes) = 20
    /\ last.res.val.data_slices = << <<10, 11>>, <<14, 15>> >>

\* C16: get_asset::<Script>(name) returns NotFound exactly when no record
\* has the name, and TypeMismatch whenever the first record of the name is
\* of another type, whatever its descriptor and view list are: the type is
\* compared before either is read.  What the descriptor parse, the view
\* list and the slices report comes back as a ParseError.
C16_TypeCheckedFirst ==
    last.op = "get_asset" =>
        /\ (last.res = Err(NotFound)) <=> (Matches(last.name) = {})
        /\ Matches(last.name) # {} =>
             LET R == asset_descriptions[FirstMatch(last.name)]
                 rest == SubSeq(descriptor_bytes, R.descriptor_ptr + 1, Len(descriptor_bytes))
             IN /\ R.asset_type # ResScript => last.res = Err(TypeMismatch)
                /\ (/\ R.asset_type = ResScript
                    /\ R.descriptor_ptr <= Len(descriptor_bytes)
                    /\ ~IsOk(SD_from_bytes(rest)))
                      => last.res = Err(ParseError(SD_from_bytes(rest).err))
                /\ (R.asset_type = ResScript /\ IsErr(last.res))
                      => last.res.err.kind = "ParseError"

\* a record of another type whose descriptor_ptr lies past the descriptor
\* section, asked for as a script
C16_Witness ==
    /\ last.op = "get_asset"
    /\ Matches(last.name) # {}
    /\ asset_descriptions[FirstMatch(last.name)].asset_type = ResTexture
    /\ asset_descriptions[FirstMatch(last.name)].descriptor_ptr > Len(descriptor_bytes)
    /\ last.res = Err(TypeMismatch)

\* the descriptor of record R parses as a script and its views resolve
WellFormed(R) ==
    /\ R.descriptor_ptr <= Len(descriptor_bytes)
    /\ IsOk(SD_from_bytes(SubSeq(descriptor_bytes, R.descriptor_ptr + 1, Len(descriptor_bytes))))
    /\ Resolvable(R)

\* the records get_assets::<Script> is to return, in table order
ScriptsExpected ==
    SelectSeq(asset_descriptions, LAMBDA R : R.asset_type = ResScript /\ WellFormed(R))

\* the assets got are those of ScriptsExpected
AssetsAreExpected(assets) ==
    /\ Len(assets) = Len(ScriptsExpected)
    /\ \A k \in 1..Len(assets) :
          LET R == ScriptsExpected[k] IN
          /\ assets[k].name = AD_name(R)
          /\ assets[k].descriptor =
                SD_from_bytes(SubSeq(descriptor_bytes, R.descriptor_ptr + 1,
                                     Len(descriptor_bytes))).val
          /\ Len(assets[k].data) =
                DVL_len(DVL_from_bytes(SubSeq(buffer_views_bytes, R.dataview_list_ptr + 1,
                                              Len(buffer_views_bytes)),
                                       overflow_checks).val)

\* C17: get_assets::<Script>() never aborts and returns, in table order,
\* exactly the assets of the records of type Script whose descriptor
\* parses and whose view list parses and resolves; a record of type Script
\* with truncated descriptor bytes is left out and the others are returned.
C17_GetAssetsTolerant ==
    last.op = "get_assets" =>
        /\ IsOk(last.res)
        /\ AssetsAreExpected(last.res.val)

\* the positions in the table of the records whose descriptor range
\* [descriptor_ptr, descriptor_ptr + descriptor_size) meets [qstart, qend)
Occupants(qstart, qend) ==
    {i \in 1..Len(asset_descriptions) :
        /\ asset_descriptions[i].descriptor_ptr < qend
        /\ qstart < asset_descriptions[i].descriptor_ptr
                      + asset_descriptions[i].descriptor_size}

\* C18: get_assets_occupying_descriptor_range(Q) returns, in table order
\* and once each, exactly the records R with R.descriptor_ptr < Q.end and
\* Q.start < R.descriptor_ptr + R.descriptor_size; a record whose range
\* only touches Q (it ends where Q starts, or starts where Q ends) is not
\* among them.
C18_HalfOpenOverlap ==
    last.op = "get_assets_occupying_descriptor_range" =>
        LET qstart == last.offset
            qend == last.offset + last.size
            got == last.res.val
        IN /\ IsOk(last.res)
           /\ {got[k] : k \in 1..Len(got)} = Occupants(qstart, qend)
           /\ \A k \in 1..(Len(got) - 1) : got[k] < got[k + 1]
           /\ \A k \in 1..Len(got) :
                 LET R == asset_descriptions[got[k]] IN
                 /\ R.descriptor_ptr + R.descriptor_size # qstart
                 /\ R.descriptor_ptr # qend

\* the range 20..28 asked of a table with the ranges 0..20 and 20..28:
\* the second record alone is returned, the first only touches
C18_Witness ==
    /\ last.op = "get_assets_occupying_descriptor_range"
    /\ last.offset = 20 /\ last.size = 8
    /\ Len(asset_descriptions) = 2
    /\ asset_descriptions[1].descriptor_ptr = 0
    /\ asset_descriptions[1].descriptor_size = 20
    /\ asset_descriptions[2].descriptor_ptr = 20
    /\ last.res = Ok(<< 2 >>)

\* a section view of the header of bnl_bytes reaches past the header and
\* the inflated body
SectionPastEnd(bnl_bytes) ==
    LET hdr == ReadHeader(bnl_bytes)
        total == HEADER_SIZE
                   + Len(Inflate(SubSeq(bnl_bytes, HEADER_SIZE + 1, Len(bnl_bytes))).val)
        past(loc) == loc.size > 0 /\ loc.offset + loc.size > total
    IN \/ past(hdr.asset_desc_loc)
       \/ past(hdr.buffer_views_loc)
       \/ past(hdr.buffer_loc)
       \/ past(hdr.descriptor_loc)

\* C19: BNLFile::from_bytes never aborts, whatever the bytes: an input
\* shorter than the 40 bytes of the header, a body that does not inflate
\* and a section view reaching past the header and the inflated body each
\* give Err(BNLError).
C19_LoadFailureIsError ==
    [][FromBytes =>
         /\ ~IsPanic(last'.res)
         /\ (\/ Len(file) < HEADER_SIZE
             \/ ~IsOk(Inflate(SubSeq(file, HEADER_SIZE + 1, Len(file))))
             \/ SectionPastEnd(file)) => IsErr(last'.res)]_vars

\* the lookups and mutations that take a record by name
ByNameOps ==
    {"get_raw_asset", "get_asset", "get_descriptor", "update_asset",
     "update_asset_from_descriptor"}

\* the descriptor of record R leaves the descriptor section, or its view
\* list starts past the view-list section
PointsOutside(R) ==
    \/ R.descriptor_ptr > Len(descriptor_bytes)
    \/ R.descriptor_ptr + R.descriptor_size > Len(descriptor_bytes)
    \/ R.dataview_list_ptr > Len(buffer_views_bytes)

\* C20: on a loaded container the lookups and mutations by name return a
\* value and do not abort, whatever the fields of the record: when the
\* record's descriptor_ptr or descriptor_ptr + descriptor_size lies past
\* the descriptor section, or its dataview_list_ptr past the view-list
\* section, the call returns an error.
C20_BadPointersAreErrors ==
    (last.op \in ByNameOps /\ Matches(last.name) # {}) =>
        /\ ~IsPanic(last.res)
        /\ PointsOutside(asset_descriptions[FirstMatch(last.name)]) => IsErr(last.res)


-----------------------------------------------------------------------------
(* SpecAD: a row of the asset-description table parsed and written back *)

\* the names of the rows: a short name, a name with bytes after its first
\* NUL, a name that fills the 128 bytes
RowNames == {NameA, << 97, 0, 98, 255 >>, [k \in 1..ASSET_NAME_SIZE |-> 65 + (k % 26)]}

\* the type codes of the rows: ResTexture, ResScript, ResCount, the codes
\* 0, 6 and 31 that are no AssetType, and a code whose low byte alone
\* would be one
RowTypes == {ResTexture, ResScript, 30, 0, 6, 31, 256 + ResScript}

\* the values of a u32 field: 0, a small value, a value of four different
\* bytes (below 2^31)
FieldValues == {0, 3, 16909060 + 2113929216}

\* the rows: file holds the row read
RowInputs ==
    {name \o Zeros(ASSET_NAME_SIZE - Len(name))
       \o LE32(t) \o LE32(u1) \o LE32(5) \o LE32(cc)
       \o LE32(0) \o LE32(20) \o LE32(dv) \o LE32(4) :
         name \in RowNames, t \in RowTypes, u1 \in FieldValues,
         cc \in FieldValues, dv \in {0, 16909060}}
    \cup {Sl(RowBytes(NameA, ResScript, 0, 20, 0, 4), 0, ASSET_DESCRIPTION_SIZE - 1)}

InitAD ==
    /\ DefaultFile
    /\ file \in RowInputs
    /\ vr = << >>
    /\ overflow_checks = FALSE
    /\ pc = "row"
    /\ last = NoCall

\* the body of the loop of BNLFile::from_bytes for row i: the row is
\* parsed with AssetDescription::from_bytes and given its index
AdFromBytes ==
    /\ pc = "row"
    /\ \E i \in 0..1 :
         LET r == AD_from_bytes(file) IN
         /\ asset_descriptions' =
               IF IsOk(r) THEN << [r.val EXCEPT !.asset_desc_index = i] >> ELSE << >>
         /\ pc' = IF IsOk(r) THEN "record" ELSE "failed"
         /\ last' = Call("ad_from_bytes", << >>, NoDescriptor, << >>, i, 0, r)
    /\ UNCHANGED << header, asset_desc_bytes, buffer_views_bytes, buffer_bytes,
                    descriptor_bytes, file, vr, overflow_checks >>

\* asset_desc.to_bytes(), kept in asset_desc_bytes
AdToBytes ==
    /\ pc = "record"
    /\ asset_desc_bytes' = AD_to_bytes(asset_descriptions[1])
    /\ pc' = "written"
    /\ last' = Call("ad_to_bytes", << >>, NoDescriptor, << >>, 0, 0, Ok(<< >>))
    /\ UNCHANGED << header, buffer_views_bytes, buffer_bytes, descriptor_bytes,
                    asset_descriptions, file, vr, overflow_checks >>

\* AssetDescription::from_bytes of the bytes written
AdReparse ==
    /\ pc = "written"
    /\ pc' = "reparsed"
    /\ last' = Call("ad_reparse", << >>, NoDescriptor, << >>, 0, 0,
                    AD_from_bytes(asset_desc_bytes))
    /\ FileUnchanged
    /\ UNCHANGED << file, vr, overflow_checks >>

NextAD ==
    \/ AdFromBytes
    \/ AdToBytes
    \/ AdReparse

SpecAD == InitAD /\ [][NextAD]_vars

\* the fields of a record that to_bytes writes
Serialized(ad) ==
    << ad.name, ad.asset_type, ad.unk_1, ad.unk_2, ad.chunk_count, ad.descriptor_ptr,
       ad.descriptor_size, ad.dataview_list_ptr, ad.resource_size >>

\* C21: to_bytes is the inverse of from_bytes: a 160-byte row with a valid
\* asset_type code parses, and the record parsed from it is written back
\* as the same 160 bytes (the name bytes, unk_1, unk_2 and chunk_count as
\* they were); the record parsed from the bytes written has the same
\* serialized fields as the record written.
C21_RowRoundTrip ==
    /\ (pc = "failed" /\ Len(file) = ASSET_DESCRIPTION_SIZE)
          => U32At(file, ASSET_NAME_SIZE) \notin AssetTypeCodes
    /\ pc \in {"written", "reparsed"} =>
          /\ Len(file) = ASSET_DESCRIPTION_SIZE
          /\ asset_desc_bytes = file
          /\ asset_descriptions[1].name = SubSeq(file, 1, ASSET_NAME_SIZE)
    /\ pc = "reparsed" =>
          /\ IsOk(last.res)
          /\ Serialized(last.res.val) = Serialized(asset_descriptions[1])

\* a row whose name has bytes after its first NUL and whose unk_1 and
\* chunk_count have four different bytes, written back and parsed again
C21_Witness ==
    /\ pc = "reparsed"
    /\ IsOk(last.res)
    /\ SubSeq(file, 1, 4) = << 97, 0, 98, 255 >>
    /\ asset_descriptions[1].unk_1 = 16909060 + 2113929216
    /\ asset_descriptions[1].chunk_count = 16909060 + 2113929216
    /\ asset_descriptions[1].asset_desc_index = 1


-----------------------------------------------------------------------------
(* Spec: what is read after a mutation *)

\* the views of the view list stored at ptr of the view-list section
StoredViews(ptr) ==
    [k \in 1..U32At(buffer_views_bytes, ptr + 4) |->
        [offset |-> U32At(buffer_views_bytes, ptr + 8 * k),
         size |-> U32At(buffer_views_bytes, ptr + 8 * k + 4)]]

\* the views lie inside the resource section and no two of them share a byte
ViewsDisjointInBounds(views) ==
    /\ \A k \in 1..Len(views) : views[k].offset + views[k].size <= Len(buffer_bytes)
    /\ \A j, k \in 1..Len(views) :
          j < k => \/ views[j].offset + views[j].size <= views[k].offset
                   \/ views[k].offset + views[k].size <= views[j].offset

\* the sizes of the views before view i, added up
RECURSIVE SizesBefore(_, _)
SizesBefore(views, i) ==
    IF i <= 1 THEN 0 ELSE SizesBefore(views, i - 1) + views[i - 1].size

\* C22: after a successful update_asset(name, F) on a record whose views
\* lie inside the resource section and do not overlap, F has the logical
\* length of the view list, the data_slices of get_raw_asset(name) joined
\* are F, get_all_bytes() of the record's VirtualResource is F, and view i
\* holds the size_i bytes of F that follow the bytes given to the views
\* before it.
C22_WriteThenRead ==
    (/\ last.op = "update_asset"
     /\ IsOk(last.res)
     /\ ViewsDisjointInBounds(
            StoredViews(asset_descriptions[FirstMatch(last.name)].dataview_list_ptr)))
    =>
        LET R == asset_descriptions[FirstMatch(last.name)]
            views == StoredViews(R.dataview_list_ptr)
            F == last.data[1]
            raw == BNL_get_raw_asset(Self, last.name, overflow_checks)
            dvl == BNL_get_dataview_list(Self, R.dataview_list_ptr, overflow_checks)
            res == VR_from_dvl(dvl.val, buffer_bytes)
        IN /\ Len(F) = SizesBefore(views, Len(views) + 1)
           /\ IsOk(raw)
           /\ Concat(raw.val.data_slices) = F
           /\ IsOk(res)
           /\ VR_get_all_bytes(res.val) = Ok(F)
           /\ \A i \in 1..Len(views) :
                 SubSeq(buffer_bytes, views[i].offset + 1, views[i].offset + views[i].size)
                   = SubSeq(F, SizesBefore(views, i) + 1,
                            SizesBefore(views, i) + views[i].size)

\* <<21, 22, 23, 24>> written to "a", whose views are (0, 2) and (4, 2)
C22_Witness ==
    /\ last.op = "update_asset"
    /\ IsOk(last.res)
    /\ last.data = << << 21, 22, 23, 24 >> >>
    /\ buffer_bytes = << 21, 22, 12, 13, 23, 24 >>


\* C23: after a successful update_asset_from_descriptor(name, d, None),
\* get_raw_asset(name) on the same container returns as descriptor_bytes
\* the bytes d.to_bytes(), and get_descriptor(name) parses a descriptor
\* that serializes to those bytes; also when d is smaller than the
\* descriptor it replaces.
C23_DescriptorReadBack ==
    (/\ last.op = "update_asset_from_descriptor"
     /\ IsOk(last.res)
     /\ last.data = << >>)
    =>
        LET raw == BNL_get_raw_asset(Self, last.name, overflow_checks)
            parsed == BNL_get_descriptor(Self, last.name)
            written == SD_to_bytes(last.descriptor).val
        IN /\ IsOk(raw)
           /\ raw.val.descriptor_bytes = written
           /\ IsOk(parsed)
           /\ SD_to_bytes(parsed.val).val = written


-----------------------------------------------------------------------------
(* SpecShared: descriptors replaced in a section whose scripts run on *)

\* the base file, and the file that gives "a" the bytes 0..12 and "b" the
\* bytes 12..20 of the descriptor section: the EndScript that ends the
\* script stored for "a" is the script of "b"
SharedFiles ==
    {MakeFile(BaseParams), MakeFile([BaseParams EXCEPT !.a_size = 12, !.b_desc_ptr = 12])}

InitShared ==
    /\ DefaultFile
    /\ file \in SharedFiles
    /\ vr = << >>
    /\ overflow_checks \in BOOLEAN
    /\ pc = "start"
    /\ last = NoCall

\* update_asset_from_descriptor with EndScript alone, the script of "a"
\* as stored, or the 16-byte script
ReplaceDescriptor == UpdateFromDescriptor({DescEnd, DescSame, DescShort})

NextShared ==
    \/ FromBytes
    \/ ReplaceDescriptor

SpecShared == InitShared /\ [][NextShared]_vars

\* C24: a successful update_asset_from_descriptor changes no byte of the
\* descriptor section outside the interval [descriptor_ptr, descriptor_ptr
\* + descriptor_size) that the table gave the record before the call, so
\* the descriptor bytes of every other record whose interval is disjoint
\* from it are the same before and after.
C24_NoClobber ==
    [][(last'.op = "update_asset_from_descriptor" /\ IsOk(last'.res)) =>
          LET i == FirstMatch(last'.name)
              R == asset_descriptions[i]
              lo == R.descriptor_ptr
              hi == R.descriptor_ptr + R.descriptor_size
          IN /\ Len(descriptor_bytes') = Len(descriptor_bytes)
             /\ \A k \in 1..Len(descriptor_bytes) :
                   (k <= lo \/ k > hi) => descriptor_bytes'[k] = descriptor_bytes[k]
             /\ \A j \in 1..Len(asset_descriptions) :
                   LET Q == asset_descriptions[j]
                       qlo == Q.descriptor_ptr
                       qhi == Q.descriptor_ptr + Q.descriptor_size
                   IN (j # i /\ (qhi <= lo \/ hi <= qlo)) =>
                         SubSeq(descriptor_bytes', qlo + 1, qhi)
                           = SubSeq(descriptor_bytes, qlo + 1, qhi)]_vars


\* position k (from 1) of the resource section lies in one of the views
Covered(k, views) ==
    \E i \in 1..Len(views) : views[i].offset < k /\ k <= views[i].offset + views[i].size

\* C25: a successful update_asset on record R changes bytes of the
\* resource section only where a view of R covers them: the other bytes of
\* the section, the asset-description, view-list and descriptor sections,
\* the header and the table stay as they were, and every other record
\* whose views share no byte with those of R has the same slices after
\* the call as before.
C25_UpdateAssetFrame ==
    [][(last'.op = "update_asset" /\ IsOk(last'.res)) =>
          LET i == FirstMatch(last'.name)
              views == StoredViews(asset_descriptions[i].dataview_list_ptr)
          IN /\ UNCHANGED << header, asset_desc_bytes, buffer_views_bytes,
                             descriptor_bytes, asset_descriptions >>
             /\ Len(buffer_bytes') = Len(buffer_bytes)
             /\ \A k \in 1..Len(buffer_bytes) :
                   ~Covered(k, views) => buffer_bytes'[k] = buffer_bytes[k]
             /\ \A j \in 1..Len(asset_descriptions) :
                   (/\ j # i
                    /\ Resolvable(asset_descriptions[j])
                    /\ \A k \in 1..Len(buffer_bytes) :
                          ~(/\ Covered(k, views)
                            /\ Covered(k, StoredViews(asset_descriptions[j].dataview_list_ptr))))
                   => LET others == StoredViews(asset_descriptions[j].dataview_list_ptr) IN
                      \A v \in 1..Len(others) :
                         SubSeq(buffer_bytes', others[v].offset + 1,
                                others[v].offset + others[v].size)
                           = SubSeq(buffer_bytes, others[v].offset + 1,
                                    others[v].offset + others[v].size)]_vars

\* <<31, 32>> written to "b", whose view is (2, 2), between the two views
\* of "a"
C25_Witness ==
    /\ last.op = "update_asset"
    /\ IsOk(last.res)
    /\ last.name = NameB
    /\ buffer_bytes = << 10, 11, 31, 32, 14, 15 >>
    /\ Len(asset_descriptions) = 2
    /\ Resolvable(asset_descriptions[1])


\* the states in which a loaded file is held
Held == {"loaded", "modified", "saved", "saved_modified"}

\* C26: in every state reached from a successful from_bytes the record at
\* position i of the table has asset_desc_index = i and the name of row i
\* of the asset-description section; no operation on the loaded file adds,
\* removes or moves a record; and the row an update writes back is the
\* 160 bytes [i*160, i*160 + 160) of the section, no other byte of it
\* changing.
C26_RowIndex ==
    [][pc' \in Held =>
          /\ \A i \in 1..Len(asset_descriptions') :
                /\ asset_descriptions'[i].asset_desc_index = i - 1
                /\ asset_descriptions'[i].name =
                      SubSeq(asset_desc_bytes', (i - 1) * ASSET_DESCRIPTION_SIZE + 1,
                             (i - 1) * ASSET_DESCRIPTION_SIZE + ASSET_NAME_SIZE)
          /\ (pc \in Held /\ last'.op # "from_bytes") =>
                /\ Len(asset_descriptions') = Len(asset_descriptions)
                /\ \A i \in 1..Len(asset_descriptions) :
                      /\ asset_descriptions'[i].name = asset_descriptions[i].name
                      /\ asset_descriptions'[i].asset_desc_index
                            = asset_descriptions[i].asset_desc_index
                /\ Len(asset_desc_bytes') = Len(asset_desc_bytes)
                /\ asset_desc_bytes' # asset_desc_bytes =>
                      /\ last'.op = "update_asset_from_descriptor"
                      /\ LET i == FirstMatch(last'.name) - 1 IN
                         \A k \in 1..Len(asset_desc_bytes) :
                            (k <= i * ASSET_DESCRIPTION_SIZE
                               \/ k > i * ASSET_DESCRIPTION_SIZE + ASSET_DESCRIPTION_SIZE)
                              => asset_desc_bytes'[k] = asset_desc_bytes[k]]_vars

\* the row of "a" rewritten with descriptor_size 8, the row of "b" after
\* it as it was loaded
C26_Witness ==
    /\ last.op = "update_asset_from_descriptor"
    /\ IsOk(last.res)
    /\ last.name = NameA
    /\ Len(asset_descriptions) = 2
    /\ asset_descriptions[2].asset_desc_index = 1
    /\ U32At(asset_desc_bytes, 148) = 8
    /\ SubSeq(asset_desc_bytes, ASSET_DESCRIPTION_SIZE + 1, 2 * ASSET_DESCRIPTION_SIZE)
         = RowBytes(NameB, ResScript, 20, 8, 24, 2)


\* the bytes [offset, offset + size) of combined, offset and size being
\* the little-endian u32 pair at byte at of the file
SectionOf(combined, bnl_bytes, at) ==
    SubSeq(combined, U32At(bnl_bytes, at) + 1, U32At(bnl_bytes, at) + U32At(bnl_bytes, at + 4))

\* C27: from_bytes takes the sections out of combined = the 40 header
\* bytes followed by the inflated body: the asset-description, view-list,
\* raw-buffer and descriptor sections it holds are combined[offset ..
\* offset + size] for the u32 pairs at bytes 8, 16, 24 and 32 of the
\* header, in that order; an offset is never counted from the start of
\* the inflated body.
C27_SectionsFromCombined ==
    [][(FromBytes /\ IsOk(last'.res)) =>
          LET combined == SubSeq(file, 1, HEADER_SIZE)
                            \o Inflate(SubSeq(file, HEADER_SIZE + 1, Len(file))).val
          IN /\ asset_desc_bytes' = SectionOf(combined, file, 8)
             /\ buffer_views_bytes' = SectionOf(combined, file, 16)
             /\ buffer_bytes' = SectionOf(combined, file, 24)
             /\ descriptor_bytes' = SectionOf(combined, file, 32)
             /\ header'.asset_desc_loc = DataViewAt(file, 8)
             /\ header'.buffer_views_loc = DataViewAt(file, 16)
             /\ header'.buffer_loc = DataViewAt(file, 24)
             /\ header'.descriptor_loc = DataViewAt(file, 32)]_vars

\* the file with 8 bytes of padding after the header, loaded: the table
\* starts at byte 48 of the combined bytes
C27_Witness ==
    /\ last.op = "from_bytes"
    /\ IsOk(last.res)
    /\ header.asset_desc_loc = [offset |-> HEADER_SIZE + 8, size |-> 2 * ASSET_DESCRIPTION_SIZE]
    /\ Len(asset_descriptions) = 2
    /\ buffer_bytes = BufferSection
    /\ descriptor_bytes = DescriptorSection


\* row i (from 0) of the table of bnl_bytes: 160 bytes of combined from
\* the offset of the asset-description view on
RowOf(combined, bnl_bytes, i) ==
    SubSeq(combined, U32At(bnl_bytes, 8) + i * ASSET_DESCRIPTION_SIZE + 1,
           U32At(bnl_bytes, 8) + (i + 1) * ASSET_DESCRIPTION_SIZE)

\* C28: from_bytes parses floor(asset_desc_loc.size / 160) records, record
\* i from the bytes [i*160, i*160 + 160) of the asset-description section,
\* in that order; when a row has an asset_type code that is no AssetType
\* the load fails with an error and no table is returned.
C28_TableLoad ==
    [][(/\ FromBytes
        /\ Len(file) >= HEADER_SIZE
        /\ IsOk(Inflate(SubSeq(file, HEADER_SIZE + 1, Len(file)))))
       =>
          LET combined == SubSeq(file, 1, HEADER_SIZE)
                            \o Inflate(SubSeq(file, HEADER_SIZE + 1, Len(file))).val
              n == U32At(file, 12) \div ASSET_DESCRIPTION_SIZE
          IN /\ IsOk(last'.res) =>
                   /\ Len(asset_descriptions') = n
                   /\ \A i \in 0..(n - 1) :
                         /\ AD_to_bytes(asset_descriptions'[i + 1]) = RowOf(combined, file, i)
                         /\ RowOf(combined, file, i)
                               = SubSeq(asset_desc_bytes', i * ASSET_DESCRIPTION_SIZE + 1,
                                        (i + 1) * ASSET_DESCRIPTION_SIZE)
                         /\ asset_descriptions'[i + 1].asset_desc_index = i
             /\ (\E i \in 0..(n - 1) :
                    /\ Len(RowOf(combined, file, i)) = ASSET_DESCRIPTION_SIZE
                    /\ U32At(RowOf(combined, file, i), ASSET_NAME_SIZE) \notin AssetTypeCodes)
                  => /\ IsErr(last'.res)
                     /\ pc' = "failed"
                     /\ asset_descriptions' = << >>]_vars

\* the file whose table view has 330 bytes, loaded: two records
C28_Witness ==
    /\ last.op = "from_bytes"
    /\ IsOk(last.res)
    /\ Len(asset_desc_bytes) = 2 * ASSET_DESCRIPTION_SIZE + 10
    /\ Len(asset_descriptions) = 2
    /\ AD_name(asset_descriptions[2]) = NameB


\* C29: the 40 bytes to_bytes() starts with are the first 40 bytes of the
\* input the container was loaded from, whatever lookups and mutations
\* came between: the loaded header writes back as the bytes it was read
\* from, no operation on the loaded file changes it, and to_bytes emits it
\* followed by the deflate of the asset-description, view-list, raw-buffer
\* and descriptor sections joined in that order.
C29_HeaderPreserved ==
    [][/\ (last'.op = "from_bytes" /\ IsOk(last'.res)) =>
             Header_to_bytes(header') = SubSeq(file, 1, HEADER_SIZE)
       /\ (pc \in Held /\ last'.op # "from_bytes") => header' = header
       /\ last'.op = "to_bytes" =>
             /\ SubSeq(file', 1, HEADER_SIZE) = Header_to_bytes(header)
             /\ SubSeq(file', HEADER_SIZE + 1, Len(file'))
                   = Deflate(asset_desc_bytes \o buffer_views_bytes
                             \o buffer_bytes \o descriptor_bytes)
             /\ Inflate(SubSeq(file', HEADER_SIZE + 1, Len(file')))
                   = Ok(asset_desc_bytes \o buffer_views_bytes
                        \o buffer_bytes \o descriptor_bytes)]_vars

\* the file with padding saved after a mutation: its header still names
\* byte 48 as the start of the table
C29_Witness ==
    /\ pc = "saved_modified"
    /\ Len(file) > HEADER_SIZE
    /\ U32At(file, 8) = HEADER_SIZE + 8
    /\ SubSeq(file, 1, HEADER_SIZE) = Header_to_bytes(header)
    /\ buffer_bytes # BufferSection


\* C30: the header check of DataViewList::from_bytes is exact: an input
\* whose view_count is so large that view_count*8 + 8 does not fit in 32
\* bits is rejected with an error value, whatever its declared_size: it is
\* neither accepted nor does the call abort.
C30_HeaderCheckExact ==
    (/\ last.op = "dvl_from_bytes"
     /\ Len(buffer_views_bytes) >= 8
     /\ U32At(buffer_views_bytes, 4) + 1 >= U32_WRAP_VIEWS)
        => IsErr(last.res)

=============================================================================
